---- MODULE Spec2Model ----
(***************************************************************************)
(* A model of the relying-party verifier of go-passkeys (package webauthn) *)
(* and of the property-list encoder of its macOS example.                  *)
(*                                                                         *)
(* Byte strings are sequences of integers 0..255.  Go strings and JSON    *)
(* text are sequences of one-character strings; Bytes turns them into the *)
(* bytes Go stores.  Errors are the kinds of the specification's error    *)
(* table; a wrapped error (fmt.Errorf("...: %v", err)) keeps the kind of  *)
(* the error it wraps.                                                     *)
(***************************************************************************)
EXTENDS Integers, Sequences, FiniteSets, TLC

\* The fields of the records below and the record each belongs to.  Every
\* record is written with its fields in this order, the order in which the
\* model checker stores them.
Fields == [
    op |-> "Call", in |-> "Call", out |-> "Call",
    rp |-> "Input", challenge |-> "Input", clientDataJSON |-> "Input",
    attestationObject |-> "Input", pub |-> "Input", alg |-> "Input",
    authData |-> "Input", sig |-> "Input",
    Type |-> "clientData", Challenge |-> "clientData", ID |-> "RelyingParty",
    Origin |-> "clientData, RelyingParty", TopOrigin |-> "clientData",
    CrossOrigin |-> "clientData",
    Format |-> "AttestationObject", AttestationStatement |-> "AttestationObject",
    AuthenticatorData |-> "AttestationObject",
    Flags |-> "AuthenticatorData, Assertion", Counter |-> "AuthenticatorData, Assertion",
    AAGUID |-> "AuthenticatorData", CredentialID |-> "AuthenticatorData",
    hi |-> "uint32", lo |-> "uint32",
    type |-> "PublicKey", curve |-> "PublicKey", key |-> "PublicKey",
    t |-> "COSE entry",
    ok |-> "result", name |-> "JSON member", val |-> "result", kind |-> "JSON value",
    str |-> "JSON value", bool |-> "JSON value", members |-> "JSON value",
    data |-> "result", major |-> "CBOR head", arg |-> "CBOR head",
    err |-> "result", v |-> "result",
    Algorithm |-> "AuthenticatorData", Public |-> "COSE key",
    PublicKey |-> "AuthenticatorData", Extensions |-> "AuthenticatorData",
    next |-> "result",
    value |-> "dictEntry", entries |-> "Dictionary", recv |-> "Add",
    ret |-> "Add"]

(***************************************************************************)
(* Characters and bytes                                                    *)
(***************************************************************************)

\* The printable ASCII characters, in code order starting at 32 (code 96, the
\* grave accent, is spelled out: it cannot be written as a character here).
Ascii == <<" ", "!", "\"", "#", "$", "%", "&", "'", "(", ")", "*", "+", ",", "-", ".", "/", "0",
    "1", "2", "3", "4", "5", "6", "7", "8", "9", ":", ";", "<", "=", ">", "?", "@", "A", "B", "C",
    "D", "E", "F", "G", "H", "I", "J", "K", "L", "M", "N", "O", "P", "Q", "R", "S", "T", "U", "V",
    "W", "X", "Y", "Z", "[", "\\", "]", "^", "_", "grave", "a", "b", "c", "d", "e", "f", "g", "h", "i",
    "j", "k", "l", "m", "n", "o", "p", "q", "r", "s", "t", "u", "v", "w", "x", "y", "z", "{", "|",
    "}", "~">>

\* The position of each element of a sequence without repetitions.
IndexIn(seq) ==
    [c \in {seq[i] : i \in 1..Len(seq)} |-> CHOOSE i \in 1..Len(seq) : seq[i] = c]

AsciiIndex == IndexIn(Ascii)

\* The byte value of a character.
Ord(c) == 31 + AsciiIndex[c]

\* []byte(s): the bytes of a Go string.
Bytes(s) == [i \in 1..Len(s) |-> Ord(s[i])]

\* ASCII case folding of one byte, as encoding/json folds member names.
Lower(n) == IF n >= 65 /\ n <= 90 THEN n + 32 ELSE n

FoldBytes(a, b) ==
    /\ Len(a) = Len(b)
    /\ \A i \in 1..Len(a) : Lower(a[i]) = Lower(b[i])

FoldEq(a, b) == FoldBytes(Bytes(a), Bytes(b))

\* s with the element at position p replaced by c.
SetAt(s, p, c) == [s EXCEPT ![p] = c]

\* Two sequences of one length that differ at exactly one position.
OneByteChange(a, b) ==
    /\ Len(a) = Len(b)
    /\ Cardinality({i \in 1..Len(a) : a[i] # b[i]}) = 1

(***************************************************************************)
(* Digests.  SHA-256, SHA-384 and SHA-512 are modelled by three keyed      *)
(* polynomial digests of 32, 48 and 64 bytes: deterministic, sensitive to  *)
(* every byte and to the length, and different from each other.            *)
(***************************************************************************)

HashPrime == 46337
HashBase == 131

\* HashBase^n modulo HashPrime
RECURSIVE PowMod(_)
PowMod(n) ==
    IF n = 0 THEN 1
    ELSE LET h == PowMod(n \div 2)
         IN  (((h * h) % HashPrime) * (IF n % 2 = 1 THEN HashBase ELSE 1)) % HashPrime

\* The polynomial with coefficients b[lo..hi], each plus one, at HashBase.
RECURSIVE Poly(_, _, _)
Poly(b, lo, hi) ==
    IF lo > hi THEN 0
    ELSE IF lo = hi THEN b[lo] + 1
    ELSE LET mid == (lo + hi) \div 2
         IN  (Poly(b, lo, mid) * PowMod(hi - mid) + Poly(b, mid + 1, hi)) % HashPrime

\* n bytes drawn from the value h.
DigestBytes(h, n, seed) ==
    [i \in 1..n |->
        CASE i = 1 -> h % 256
          [] i = 2 -> h \div 256
          [] OTHER -> (h + i * seed) % 256]

Digest(b, n, seed) ==
    DigestBytes((Poly(b, 1, Len(b)) + (seed + Len(b)) * PowMod(Len(b))) % HashPrime,
                n, seed)

Sha256Size == 32
Sha384Size == 48
Sha512Size == 64

Sha256(b) == Digest(b, Sha256Size, 256)
Sha384(b) == Digest(b, Sha384Size, 384)
Sha512(b) == Digest(b, Sha512Size, 512)

(***************************************************************************)
(* base64.RawURLEncoding.DecodeString                                      *)
(***************************************************************************)

encodeURL == <<"A", "B", "C", "D", "E", "F", "G", "H", "I", "J", "K", "L", "M", "N", "O", "P", "Q",
    "R", "S", "T", "U", "V", "W", "X", "Y", "Z", "a", "b", "c", "d", "e", "f", "g", "h", "i", "j",
    "k", "l", "m", "n", "o", "p", "q", "r", "s", "t", "u", "v", "w", "x", "y", "z", "0", "1", "2",
    "3", "4", "5", "6", "7", "8", "9", "-", "_">>

\* The 6-bit value of a character of the URL alphabet is its position less one.
decodeMap == IndexIn(encodeURL)

\* The 6-bit value of character k of a quantum of n characters at i; 0 past it.
Sextet(s, i, k, n) == IF k < n THEN decodeMap[s[i + k]] - 1 ELSE 0

\* The first n - 1 bytes of the 24 bits w.
QuantumBytes(w, n) == SubSeq(<<w \div 65536, (w \div 256) % 256, w % 256>>, 1, n - 1)

\* The bytes of one quantum of 2, 3 or 4 characters.  The decoder is not strict:
\* the unused low bits of a final short quantum are dropped without a check.
Quantum(s, i, n) ==
    QuantumBytes(((Sextet(s, i, 0, n) * 64 + Sextet(s, i, 1, n)) * 64
                    + Sextet(s, i, 2, n)) * 64 + Sextet(s, i, 3, n), n)

\* A single character left over is a CorruptInputError.
RECURSIVE DecodeFrom(_, _, _)
DecodeFrom(s, i, acc) ==
    LET left == Len(s) - i + 1
    IN  IF left <= 0 THEN [ok |-> TRUE, data |-> acc]
        ELSE IF left = 1 THEN [ok |-> FALSE, data |-> <<>>]
        ELSE DecodeFrom(s, i + 4, acc \o Quantum(s, i, IF left < 4 THEN left ELSE 4))

\* A character outside the alphabet (padding included) is a CorruptInputError.
DecodeString(s) ==
    IF \E i \in 1..Len(s) : s[i] \notin DOMAIN decodeMap
    THEN [ok |-> FALSE, data |-> <<>>]
    ELSE DecodeFrom(s, 1, <<>>)

(***************************************************************************)
(* encoding/json, for the documents clientDataJSON ranges over: objects,   *)
(* strings without escapes, true, false, null, and spaces between tokens.  *)
(***************************************************************************)

JsonError == [ok |-> FALSE, kind |-> "invalid", str |-> <<>>, bool |-> FALSE,
              members |-> <<>>, next |-> 0]

JsonValue(k, s, b, m, n) == [ok |-> TRUE, kind |-> k, str |-> s, bool |-> b,
                             members |-> m, next |-> n]

RECURSIVE SkipSpace(_, _)
SkipSpace(s, i) == IF i <= Len(s) /\ s[i] = " " THEN SkipSpace(s, i + 1) ELSE i

\* The position of the quote that closes a string whose text starts at j; 0 if none.
RECURSIVE CloseQuote(_, _)
CloseQuote(s, j) ==
    IF j > Len(s) THEN 0
    ELSE IF s[j] = "\"" THEN j
    ELSE CloseQuote(s, j + 1)

\* s has the word w at position i.
HasWord(s, i, w) ==
    /\ i + Len(w) - 1 <= Len(s)
    /\ SubSeq(s, i, i + Len(w) - 1) = w

\* The string whose opening quote is at i and whose closing quote is at j.
StringTo(s, i, j) ==
    IF j = 0 THEN JsonError
    ELSE JsonValue("string", SubSeq(s, i + 1, j - 1), FALSE, <<>>, j + 1)

ScanString(s, i) == StringTo(s, i, CloseQuote(s, i + 1))

RECURSIVE ScanValue(_, _)
RECURSIVE ScanObject(_, _)
RECURSIVE ScanMembers(_, _, _)
RECURSIVE ScanColon(_, _, _)
RECURSIVE ScanMemberValue(_, _, _, _)
RECURSIVE ScanMemberEnd(_, _, _, _)
RECURSIVE ScanNext(_, _, _)

\* One JSON value starting at position i (no leading space).
ScanValue(s, i) ==
    IF i > Len(s) THEN JsonError
    ELSE IF s[i] = "\"" THEN ScanString(s, i)
    ELSE IF HasWord(s, i, <<"t", "r", "u", "e">>)
        THEN JsonValue("bool", <<>>, TRUE, <<>>, i + 4)
    ELSE IF HasWord(s, i, <<"f", "a", "l", "s", "e">>)
        THEN JsonValue("bool", <<>>, FALSE, <<>>, i + 5)
    ELSE IF HasWord(s, i, <<"n", "u", "l", "l">>)
        THEN JsonValue("null", <<>>, FALSE, <<>>, i + 4)
    ELSE IF s[i] = "{" THEN ScanObject(s, SkipSpace(s, i + 1))
    ELSE JsonError

\* An object whose first token after the brace is at j.
ScanObject(s, j) ==
    IF j <= Len(s) /\ s[j] = "}" THEN JsonValue("object", <<>>, FALSE, <<>>, j + 1)
    ELSE ScanMembers(s, j, <<>>)

\* The members of an object from position i (a key is due) to its closing brace.
ScanMembers(s, i, acc) ==
    IF i > Len(s) \/ s[i] # "\"" THEN JsonError
    ELSE ScanColon(s, acc, ScanString(s, i))

\* ... the colon after the key
ScanColon(s, acc, key) ==
    IF ~key.ok THEN JsonError
    ELSE ScanMemberValue(s, acc, key.str, SkipSpace(s, key.next))

\* ... the value after the colon at c
ScanMemberValue(s, acc, name, c) ==
    IF c > Len(s) \/ s[c] # ":" THEN JsonError
    ELSE ScanMemberEnd(s, acc, name, ScanValue(s, SkipSpace(s, c + 1)))

\* ... the member stored
ScanMemberEnd(s, acc, name, val) ==
    IF ~val.ok THEN JsonError
    ELSE ScanNext(s, Append(acc, [name |-> name, kind |-> val.kind, str |-> val.str,
                                  bool |-> val.bool]),
                  SkipSpace(s, val.next))

\* ... and at e the closing brace, or a comma and the next member.
ScanNext(s, m, e) ==
    IF e > Len(s) THEN JsonError
    ELSE IF s[e] = "}" THEN JsonValue("object", <<>>, FALSE, m, e + 1)
    ELSE IF s[e] = "," THEN ScanMembers(s, SkipSpace(s, e + 1), m)
    ELSE JsonError

\* The value v must be followed by the end of the input.
EndOfDocument(s, v) ==
    IF ~v.ok THEN JsonError
    ELSE IF SkipSpace(s, v.next) # Len(s) + 1 THEN JsonError
    ELSE v

\* checkValid and the scan of the whole document: one value, then end of input.
ScanDocument(s) == EndOfDocument(s, ScanValue(s, SkipSpace(s, 1)))

(***************************************************************************)
(* clientData and its decoding                                             *)
(***************************************************************************)

\* The json tags of clientData's fields, in field order.
clientDataTags == <<
    <<"t", "y", "p", "e">>,
    <<"c", "h", "a", "l", "l", "e", "n", "g", "e">>,
    <<"o", "r", "i", "g", "i", "n">>,
    <<"t", "o", "p", "O", "r", "i", "g", "i", "n">>,
    <<"c", "r", "o", "s", "s", "O", "r", "i", "g", "i", "n">> >>

clientDataFields == <<"Type", "Challenge", "Origin", "TopOrigin", "CrossOrigin">>

\* The zero value of clientData.
clientData == [Type |-> <<>>, Challenge |-> <<>>, Origin |-> <<>>,
               TopOrigin |-> <<>>, CrossOrigin |-> FALSE]

\* The least element of a set of integers.
Min(S) == CHOOSE i \in S : \A j \in S : i <= j

\* The field the tags at positions exact (equal to the member name) and fold
\* (equal to it under case folding) select.
FirstField(exact, fold) ==
    IF exact # {} THEN clientDataFields[Min(exact)]
    ELSE IF fold # {} THEN clientDataFields[Min(fold)]
    ELSE "none"

\* The field a member name selects: the exact tag if there is one, else the
\* first tag equal to it under case folding, else none (the member is skipped).
FieldFor(name) ==
    FirstField({i \in 1..Len(clientDataTags) : clientDataTags[i] = name},
               {i \in 1..Len(clientDataTags) : FoldEq(clientDataTags[i], name)})

\* clientDataChallenge.UnmarshalJSON on the text of one value: a string is
\* decoded, null is decoded as the empty string, any other value is an error.
ChallengeUnmarshalJSON(m) ==
    IF m.kind \notin {"string", "null"} THEN [ok |-> FALSE, data |-> <<>>]
    ELSE DecodeString(IF m.kind = "string" THEN m.str ELSE <<>>)

\* The outcome c of UnmarshalJSON stored into the struct d = [err, v].
StoreChallenge(d, c) ==
    IF c.ok THEN [d EXCEPT !.v.Challenge = c.data] ELSE [d EXCEPT !.err = TRUE]

\* The member m stored into the field f of d.
StoreField(d, m, f) ==
    IF f = "none" THEN d
    ELSE IF f = "Challenge" THEN StoreChallenge(d, ChallengeUnmarshalJSON(m))
    ELSE IF m.kind = "null" THEN d
    ELSE IF f = "CrossOrigin"
        THEN IF m.kind = "bool" THEN [d EXCEPT !.v.CrossOrigin = m.bool]
             ELSE [d EXCEPT !.err = TRUE]
    ELSE IF m.kind = "string" THEN [d EXCEPT !.v[f] = m.str]
    ELSE [d EXCEPT !.err = TRUE]

StoreMember(d, m) == StoreField(d, m, FieldFor(m.name))

RECURSIVE StoreMembers(_, _, _)
StoreMembers(ms, i, d) ==
    IF i > Len(ms) \/ d.err THEN d
    ELSE StoreMembers(ms, i + 1, StoreMember(d, ms[i]))

\* The scanned document v decoded into a zero clientData.
UnmarshalValue(v, zero) ==
    IF ~v.ok THEN [zero EXCEPT !.err = TRUE]
    ELSE IF v.kind = "null" THEN zero
    ELSE IF v.kind # "object" THEN [zero EXCEPT !.err = TRUE]
    ELSE StoreMembers(v.members, 1, zero)

\* json.Unmarshal(clientDataJSON, &clientData).
Unmarshal(doc) == UnmarshalValue(ScanDocument(doc), [err |-> FALSE, v |-> clientData])

\* clientDataChallenge.Equal: subtle.ConstantTimeCompare, 1 only for equal
\* lengths and equal bytes.
\* ConstantTimeCompare looking only at as many bytes as x has.
ConstantTimeComparePrefix(x, y) ==
    IF Len(x) > Len(y) THEN 0
    ELSE IF \A i \in 1..Len(x) : x[i] = y[i] THEN 1
    ELSE 0

ConstantTimeCompare(x, y) ==
    IF Len(x) # Len(y) THEN 0
    ELSE IF \A i \in 1..Len(x) : x[i] = y[i] THEN 1
    ELSE 0

Equal(c, b) == ConstantTimeCompare(c, b) = 1

(***************************************************************************)
(* Package cbor: the decoder of the CBOR subset WebAuthn uses.  A decoder  *)
(* is the input b and a position; each operation returns ok, the decoded   *)
(* value and the position after it.                                        *)
(***************************************************************************)

\* Arguments of 4 and 8 bytes saturate here: no input is that long.
ArgCap == 8388607

RECURSIVE BigEndian(_, _, _, _)
BigEndian(b, i, n, acc) ==
    IF n = 0 THEN acc
    ELSE LET v == acc * 256 + b[i]
         IN  BigEndian(b, i + 1, n - 1, IF v > ArgCap THEN ArgCap ELSE v)

ItemHeadError == [ok |-> FALSE, major |-> 0, arg |-> 0, next |-> 0]

\* The initial byte of an item and its argument.  Additional information 28..30
\* is reserved and 31 marks an indefinite length: both are rejected.
ItemHead(b, i) ==
    IF i > Len(b) THEN ItemHeadError
    ELSE LET info == b[i] % 32
             w == CASE info < 24 -> 0
                    [] info = 24 -> 1
                    [] info = 25 -> 2
                    [] info = 26 -> 4
                    [] info = 27 -> 8
                    [] OTHER -> -1
         IN  IF w < 0 \/ i + w > Len(b) THEN ItemHeadError
             ELSE [ok |-> TRUE, major |-> b[i] \div 32,
                   arg |-> IF w = 0 THEN info ELSE BigEndian(b, i + 1, w, 0),
                   next |-> i + 1 + w]

RECURSIVE SkipItems(_, _, _)
RECURSIVE SkipItem(_, _, _)

\* The position after n complete items starting at i; 0 when they are malformed.
SkipItems(b, i, n) == IF n = 0 THEN i ELSE SkipItem(b, n, ItemHead(b, i))

\* ... of which the first has the head h: a string holds arg bytes, an array
\* arg items, a map arg pairs of items and a tag one item.
SkipItem(b, n, h) ==
    IF ~h.ok THEN 0
    ELSE IF h.major \in {2, 3} /\ h.next + h.arg - 1 > Len(b) THEN 0
    ELSE SkipItems(b,
                   IF h.major \in {2, 3} THEN h.next + h.arg ELSE h.next,
                   CASE h.major = 4 -> n - 1 + h.arg
                     [] h.major = 5 -> n - 1 + 2 * h.arg
                     [] h.major = 6 -> n
                     [] OTHER -> n - 1)

DecodeError == [ok |-> FALSE, val |-> <<>>, next |-> 0]

\* The item b[i..j-1], or an error when j = 0.
ItemTo(b, i, j, val) ==
    IF j = 0 THEN DecodeError ELSE [ok |-> TRUE, val |-> val, next |-> j]

\* Decoder.Skip: consume one complete item.
Skip(b, i) == ItemTo(b, i, SkipItems(b, i, 1), <<>>)

\* The bytes b[i..j-1].
RawTo(b, i, j) == ItemTo(b, i, j, SubSeq(b, i, j - 1))

\* Decoder.Raw: the bytes of the next complete item.
Raw(b, i) == RawTo(b, i, SkipItems(b, i, 1))

\* A definite-length string with the head h, of the given major type.
StringItem(b, h, major) ==
    IF ~h.ok \/ h.major # major \/ h.next + h.arg - 1 > Len(b) THEN DecodeError
    ELSE [ok |-> TRUE, val |-> SubSeq(b, h.next, h.next + h.arg - 1),
          next |-> h.next + h.arg]

StringOf(b, i, major) == StringItem(b, ItemHead(b, i), major)

\* Decoder.Bytes and Decoder.String.
DecodeBytes(b, i) == StringOf(b, i, 2)
DecodeText(b, i) == StringOf(b, i, 3)

\* An unsigned (major 0) or negative (major 1, -1 - n) integer with the head h.
IntItem(h) ==
    IF ~h.ok \/ h.major \notin {0, 1} THEN [ok |-> FALSE, val |-> 0, next |-> 0]
    ELSE [ok |-> TRUE, val |-> IF h.major = 0 THEN h.arg ELSE -1 - h.arg,
          next |-> h.next]

\* Decoder.Int
DecodeInt(b, i) == IntItem(ItemHead(b, i))

\* Decoder.Done and Decoder.Rest.
Done(b, i) == i = Len(b) + 1
Rest(b, i) == SubSeq(b, i, Len(b))

(***************************************************************************)
(* Errors.  A Go error is the chain of its messages, outermost first; nil  *)
(* is the empty chain.  Kind names the entry of the error table a chain    *)
(* belongs to: the kind of the innermost message.                          *)
(***************************************************************************)

nil == <<>>

Errorf(msg) == <<msg>>

\* fmt.Errorf("msg: %v", err)
Wrap(msg, err) == <<msg>> \o err

KindOf(msg) ==
    CASE msg = "parsing client data" -> "MalformedClientData"
      [] msg = "invalid client data type" -> "ClientDataTypeMismatch"
      [] msg = "invalid client data origin" -> "OriginMismatch"
      [] msg = "invalid client data challenge" -> "ChallengeMismatch"
      [] msg \in {"invalid cbor data", "no auth data"} -> "MalformedAttestation"
      [] msg \in {"not enough bytes for rpid hash", "not enough bytes for flag",
                  "not enough bytes for counter", "not enough bytes for aaguid",
                  "not enough bytes for cred ID length",
                  "not enough bytes for cred ID"} -> "MalformedAuthData"
      [] msg \in {"authenticator data doesn't match relying party ID",
                  "assertion issued for different relying party"} -> "RelyingPartyMismatch"
      [] msg = "invalid COSE key" -> "MalformedCOSEKey"
      [] msg \in {"unsupported signing algorithm",
                  "unsupported key algorithm"} -> "UnsupportedAlgorithm"
      [] msg = "invalid public key type for %s algorithm" -> "AlgorithmKeyMismatch"
      [] msg = "invalid %s signature" -> "InvalidSignature"
      [] OTHER -> "none"

Kind(err) == IF err = nil THEN "none" ELSE KindOf(err[Len(err)])

(***************************************************************************)
(* Algorithms and public keys                                              *)
(***************************************************************************)

ES256 == -7
ES384 == -35
ES512 == -36
EdDSA == -8
RS256 == -257
RS384 == -258
RS512 == -259

\* A crypto.PublicKey is a value of some dynamic type: type is the Go type the
\* interface holds, curve the curve of an ECDSA key, key the key material.
PublicKey(type, curve, key) == [type |-> type, curve |-> curve, key |-> key]

NoKey == PublicKey("nil", "", <<>>)

(***************************************************************************)
(* COSE_Key reader (Decoder.PublicKey)                                     *)
(***************************************************************************)

RECURSIVE CoseEntries(_, _, _, _)
RECURSIVE CoseEntry(_, _, _, _)
RECURSIVE CoseStore(_, _, _, _, _, _)

\* The value with the head h at position i: integers and byte strings are
\* kept, any other value is skipped.
CoseValue(b, i, h) ==
    IF ~h.ok THEN DecodeError
    ELSE IF h.major \in {0, 1} THEN IntItem(h)
    ELSE IF h.major = 2 THEN StringItem(b, h, 2)
    ELSE Skip(b, i)

CoseType(h) ==
    IF h.major \in {0, 1} THEN "int" ELSE IF h.major = 2 THEN "bytes" ELSE "other"

\* The n entries of a COSE_Key map that start at position i, by label.
CoseEntries(b, i, n, acc) ==
    IF n = 0 THEN [ok |-> TRUE, val |-> acc, next |-> i]
    ELSE CoseEntry(b, n, acc, DecodeInt(b, i))

\* ... after the label k of the first
CoseEntry(b, n, acc, k) ==
    IF ~k.ok THEN DecodeError
    ELSE CoseStore(b, n, acc, k.val, CoseType(ItemHead(b, k.next)),
                   CoseValue(b, k.next, ItemHead(b, k.next)))

\* ... and its value v of type t.
CoseStore(b, n, acc, label, t, v) ==
    IF ~v.ok THEN DecodeError
    ELSE CoseEntries(b, v.next, n - 1, (label :> [t |-> t, v |-> v.val]) @@ acc)

\* x left-padded with zero bytes to n bytes.
LeftPad(x, n) == [i \in 1..n |-> IF i <= n - Len(x) THEN 0 ELSE x[i - (n - Len(x))]]

CoordinateSize(crv) == CASE crv = 1 -> 32 [] crv = 2 -> 48 [] crv = 3 -> 66 [] OTHER -> 0
CurveName(crv) == CASE crv = 1 -> "P-256" [] crv = 2 -> "P-384" [] crv = 3 -> "P-521"
                    [] OTHER -> ""

CoseKeyError(msg) == [ok |-> FALSE, err |-> Errorf(msg), Algorithm |-> 0,
                      Public |-> NoKey, next |-> 0]

\* The key a COSE_Key map holds, with the agreement of alg, kty and crv checked.
CoseKey(m, next) ==
    LET has(l, t) == l \in DOMAIN m /\ m[l].t = t
        alg == m[3].v
        kty == m[1].v
        bad == CoseKeyError("invalid COSE key")
        good(pub) == [ok |-> TRUE, err |-> nil, Algorithm |-> alg, Public |-> pub,
                      next |-> next]
    IN  IF ~has(1, "int") \/ ~has(3, "int") THEN bad
        ELSE IF alg \notin {ES256, ES384, ES512, EdDSA, RS256, RS384, RS512}
            THEN CoseKeyError("unsupported key algorithm")
        ELSE IF kty = 2
            THEN IF ~has(-1, "int") \/ ~has(-2, "bytes") \/ ~has(-3, "bytes") THEN bad
                 ELSE LET crv == m[-1].v
                          size == CoordinateSize(crv)
                      IN  IF size = 0 \/ Len(m[-2].v) > size \/ Len(m[-3].v) > size
                              \/ <<alg, crv>> \notin {<<ES256, 1>>, <<ES384, 2>>, <<ES512, 3>>}
                          THEN bad
                          ELSE good(PublicKey("*ecdsa.PublicKey", CurveName(crv),
                                   LeftPad(m[-2].v, size) \o LeftPad(m[-3].v, size)))
        ELSE IF kty = 1
            THEN IF ~has(-1, "int") \/ ~has(-2, "bytes") THEN bad
                 ELSE IF m[-1].v # 6 \/ Len(m[-2].v) # 32 \/ alg # EdDSA THEN bad
                 ELSE good(PublicKey("ed25519.PublicKey", "", m[-2].v))
        ELSE IF kty = 3
            THEN IF ~has(-1, "bytes") \/ ~has(-2, "bytes") THEN bad
                 ELSE IF alg \notin {RS256, RS384, RS512} THEN bad
                 ELSE good(PublicKey("*rsa.PublicKey", "", m[-1].v \o m[-2].v))
        ELSE bad

\* The key of the entries es.
CoseKeyOf(es) ==
    IF ~es.ok THEN CoseKeyError("invalid COSE key") ELSE CoseKey(es.val, es.next)

\* The key of the map with the head h.
CoseMap(b, h) ==
    IF ~h.ok \/ h.major # 5 THEN CoseKeyError("invalid COSE key")
    ELSE CoseKeyOf(CoseEntries(b, h.next, h.arg, <<>>))

\* Decoder.PublicKey: one COSE_Key map at position i.
DecodePublicKey(b, i) == CoseMap(b, ItemHead(b, i))

(***************************************************************************)
(* parseAttestationObject                                                  *)
(***************************************************************************)

AttestationObject(format, attest, authData) ==
    [Format |-> format, AttestationStatement |-> attest, AuthenticatorData |-> authData]

FmtKey == Bytes(<<"f", "m", "t">>)
AttStmtKey == Bytes(<<"a", "t", "t", "S", "t", "m", "t">>)
AuthDataKey == Bytes(<<"a", "u", "t", "h", "D", "a", "t", "a">>)

RECURSIVE AttestationEntries(_, _, _, _)
RECURSIVE AttestationEntry(_, _, _, _)
RECURSIVE AttestationStore(_, _, _, _, _)

\* The map callback, applied to the n entries that start at position i.
AttestationEntries(b, i, n, acc) ==
    IF n = 0 THEN [ok |-> TRUE, val |-> acc, next |-> i]
    ELSE AttestationEntry(b, n, acc, DecodeText(b, i))

\* ... after the key of the first: fmt is read as a text string, attStmt as a
\* raw item, authData as a byte string, and the value of any other key is skipped.
AttestationEntry(b, n, acc, key) ==
    IF ~key.ok THEN DecodeError
    ELSE AttestationStore(b, n, acc, key.val,
                          CASE key.val = FmtKey -> DecodeText(b, key.next)
                            [] key.val = AttStmtKey -> Raw(b, key.next)
                            [] key.val = AuthDataKey -> DecodeBytes(b, key.next)
                            [] OTHER -> Skip(b, key.next))

\* ... and its value v.
AttestationStore(b, n, acc, key, v) ==
    IF ~v.ok THEN DecodeError
    ELSE AttestationEntries(b, v.next, n - 1,
                            CASE key = FmtKey -> [acc EXCEPT !.Format = v.val]
                              [] key = AttStmtKey ->
                                   [acc EXCEPT !.AttestationStatement = v.val]
                              [] key = AuthDataKey ->
                                   [acc EXCEPT !.AuthenticatorData = v.val]
                              [] OTHER -> acc)

\* The map with the head h.
AttestationMapOf(b, h) ==
    IF ~h.ok \/ h.major # 5 THEN DecodeError
    ELSE AttestationEntries(b, h.next, h.arg, AttestationObject(<<>>, <<>>, <<>>))

\* Decoder.Map with the callback of parseAttestationObject.
AttestationMap(b) == AttestationMapOf(b, ItemHead(b, 1))

\* AttestationObjectOf accepting bytes after the map.
AttestationObjectOfNoDone(b, m) ==
    IF ~m.ok
        THEN [val |-> nil, err |-> Errorf("invalid cbor data")]
    ELSE IF Len(m.val.AuthenticatorData) = 0
        THEN [val |-> nil, err |-> Errorf("no auth data")]
    ELSE [val |-> m.val, err |-> nil]

\* The attestation object of the decoded map m.
AttestationObjectOf(b, m) ==
    IF ~m.ok \/ ~Done(b, m.next)
        THEN [val |-> nil, err |-> Errorf("invalid cbor data")]
    ELSE IF Len(m.val.AuthenticatorData) = 0
        THEN [val |-> nil, err |-> Errorf("no auth data")]
    ELSE [val |-> m.val, err |-> nil]

parseAttestationObject(b) == AttestationObjectOf(b, AttestationMap(b))

(***************************************************************************)
(* ParseAuthenticatorData                                                  *)
(***************************************************************************)

\* binary.BigEndian.Uint32 and Uint16.  A uint32 is kept as its two 16-bit
\* halves, so that all 32 bits are represented.
Uint16(b) == b[1] * 256 + b[2]
\* Uint32 reading the four bytes little-endian.
Uint32LittleEndian(b) ==
    [hi |-> Uint16(<<b[4], b[3]>>), lo |-> Uint16(<<b[2], b[1]>>)]

Uint32(b) == [hi |-> Uint16(SubSeq(b, 1, 2)), lo |-> Uint16(SubSeq(b, 3, 4))]

RpidHashSize == 32
FlagSize == 1
CounterSize == 4
AaguidSize == 16
CredIDLengthSize == 2

\* Flags.AttestedCredentialData and Flags.Extensions: bits 6 and 7.
FlagsAttestedCredentialData(f) == (f \div 64) % 2 = 1
FlagsExtensions(f) == (f \div 128) % 2 = 1

\* b[n:]
From(b, n) == SubSeq(b, n + 1, Len(b))

AuthenticatorData(flags, counter, aaguid, credID, alg, pub, ext) ==
    [Flags |-> flags, Counter |-> counter, AAGUID |-> aaguid, CredentialID |-> credID,
     Algorithm |-> alg, PublicKey |-> pub, Extensions |-> ext]

\* The parsed data, once the public key pub has been read from the bytes b
\* that follow the credential ID; what follows the key is the extensions.
AttestedCredentialData(flags, counter, aaguid, credID, b, pub) ==
    IF ~pub.ok THEN [val |-> nil, err |-> Wrap("parsing public key", pub.err)]
    ELSE [val |-> AuthenticatorData(flags, counter, aaguid, credID, pub.Algorithm,
                      pub.Public,
                      IF ~Done(b, pub.next) THEN Rest(b, pub.next) ELSE <<>>),
          err |-> nil]

\* AttestedData taking as credential ID what there is when the announced
\* length exceeds it.
AttestedDataClamped(b) ==
    LET fail(msg) == [val |-> nil, err |-> Errorf(msg)]
        b1 == From(b, RpidHashSize)
        b2 == From(b1, FlagSize)
        b3 == From(b2, CounterSize)
        b4 == From(b3, AaguidSize)
        b5 == From(b4, CredIDLengthSize)
        size == IF Len(b4) < CredIDLengthSize THEN 0
                ELSE IF Uint16(SubSeq(b4, 1, CredIDLengthSize)) > Len(b5) THEN Len(b5)
                ELSE Uint16(SubSeq(b4, 1, CredIDLengthSize))
        b6 == From(b5, size)
    IN  IF Len(b1) < FlagSize THEN fail("not enough bytes for flag")
        ELSE IF Len(b2) < CounterSize THEN fail("not enough bytes for counter")
        ELSE IF Len(b3) < AaguidSize THEN fail("not enough bytes for aaguid")
        ELSE IF Len(b4) < CredIDLengthSize THEN fail("not enough bytes for cred ID length")
        ELSE AttestedCredentialData(b1[1], Uint32(SubSeq(b2, 1, CounterSize)),
                                    SubSeq(b3, 1, AaguidSize), SubSeq(b5, 1, size),
                                    b6, DecodePublicKey(b6, 1))

\* What follows the RP-ID hash of the authenticator data b: the flags, the
\* counter and the attested credential data.
AttestedData(b) ==
    LET fail(msg) == [val |-> nil, err |-> Errorf(msg)]
        b1 == From(b, RpidHashSize)
        b2 == From(b1, FlagSize)
        b3 == From(b2, CounterSize)
        b4 == From(b3, AaguidSize)
        size == Uint16(SubSeq(b4, 1, CredIDLengthSize))
        b5 == From(b4, CredIDLengthSize)
        b6 == From(b5, size)
    IN  IF Len(b1) < FlagSize THEN fail("not enough bytes for flag")
        ELSE IF Len(b2) < CounterSize THEN fail("not enough bytes for counter")
        ELSE IF Len(b3) < AaguidSize THEN fail("not enough bytes for aaguid")
        ELSE IF Len(b4) < CredIDLengthSize THEN fail("not enough bytes for cred ID length")
        ELSE IF Len(b5) < size THEN fail("not enough bytes for cred ID")
        ELSE AttestedCredentialData(b1[1], Uint32(SubSeq(b2, 1, CounterSize)),
                                    SubSeq(b3, 1, AaguidSize), SubSeq(b5, 1, size),
                                    b6, DecodePublicKey(b6, 1))

\* ParseAuthenticatorData without the comparison of the RP-ID hash.
ParseAuthenticatorDataAnyParty(rpID, b) ==
    IF Len(b) < RpidHashSize
        THEN [val |-> nil, err |-> Errorf("not enough bytes for rpid hash")]
    ELSE AttestedData(b)

ParseAuthenticatorData(rpID, b) ==
    IF Len(b) < RpidHashSize
        THEN [val |-> nil, err |-> Errorf("not enough bytes for rpid hash")]
    ELSE IF Sha256(Bytes(rpID)) # SubSeq(b, 1, RpidHashSize)
        THEN [val |-> nil,
              err |-> Errorf("authenticator data doesn't match relying party ID")]
    ELSE AttestedData(b)

(***************************************************************************)
(* VerifySignature                                                         *)
(***************************************************************************)

\* The one signature the holder of the private half of pub produces over a
\* digest under a scheme (the signing side, which the package does not hold).
SignatureOf(pub, scheme, digest) ==
    LET k == Poly(pub.key, 1, Len(pub.key)) + scheme
    IN  [i \in 1..Len(digest) |-> (digest[i] + k + i) % 256]

\* ecdsa.VerifyASN1, ed25519.Verify (which hashes the message itself) and
\* rsa.VerifyPKCS1v15 (whose padding names the hash).
ecdsaVerifyASN1(pub, hash, sig) == sig = SignatureOf(pub, 1, hash)
ed25519Verify(pub, message, sig) == sig = SignatureOf(pub, 2, Sha512(message))
rsaVerifyPKCS1v15(pub, hash, hashed, sig) == sig = SignatureOf(pub, hash, hashed)

\* crypto.SHA256, crypto.SHA384, crypto.SHA512
cryptoSHA256 == 5
cryptoSHA384 == 6
cryptoSHA512 == 7

\* VerifySignature taking every unrecognized algorithm for ES256.
VerifySignatureDefaultES256(pub, alg, data, sig) ==
    LET badType == Errorf("invalid public key type for %s algorithm")
        badSig == Errorf("invalid %s signature")
        ecdsa(h) == IF pub.type # "*ecdsa.PublicKey" THEN badType
                    ELSE IF ~ecdsaVerifyASN1(pub, h, sig) THEN badSig
                    ELSE nil
        rsa(id, h) == IF pub.type # "*rsa.PublicKey" THEN badType
                      ELSE IF ~rsaVerifyPKCS1v15(pub, id, h, sig) THEN badSig
                      ELSE nil
    IN  CASE alg = ES384 -> ecdsa(Sha384(data))
          [] alg = ES512 -> ecdsa(Sha512(data))
          [] alg = EdDSA -> IF pub.type # "*ed25519.PublicKey" THEN badType
                            ELSE IF ~ed25519Verify(pub, data, sig) THEN badSig
                            ELSE nil
          [] alg = RS256 -> rsa(cryptoSHA256, Sha256(data))
          [] alg = RS384 -> rsa(cryptoSHA384, Sha384(data))
          [] alg = RS512 -> rsa(cryptoSHA512, Sha512(data))
          [] OTHER -> ecdsa(Sha256(data))

VerifySignature(pub, alg, data, sig) ==
    LET badType == Errorf("invalid public key type for %s algorithm")
        badSig == Errorf("invalid %s signature")
        ecdsa(h) == IF pub.type # "*ecdsa.PublicKey" THEN badType
                    ELSE IF ~ecdsaVerifyASN1(pub, h, sig) THEN badSig
                    ELSE nil
        rsa(id, h) == IF pub.type # "*rsa.PublicKey" THEN badType
                      ELSE IF ~rsaVerifyPKCS1v15(pub, id, h, sig) THEN badSig
                      ELSE nil
    IN  CASE alg = ES256 -> ecdsa(Sha256(data))
          [] alg = ES384 -> ecdsa(Sha384(data))
          [] alg = ES512 -> ecdsa(Sha512(data))
          [] alg = EdDSA -> IF pub.type # "*ed25519.PublicKey" THEN badType
                            ELSE IF ~ed25519Verify(pub, data, sig) THEN badSig
                            ELSE nil
          [] alg = RS256 -> rsa(cryptoSHA256, Sha256(data))
          [] alg = RS384 -> rsa(cryptoSHA384, Sha384(data))
          [] alg = RS512 -> rsa(cryptoSHA512, Sha512(data))
          [] OTHER -> Errorf("unsupported signing algorithm")

(***************************************************************************)
(* RelyingParty                                                            *)
(***************************************************************************)

RelyingParty(id, origin) == [ID |-> id, Origin |-> origin]

TypeCreate == <<"w", "e", "b", "a", "u", "t", "h", "n", ".", "c", "r", "e", "a", "t", "e">>
TypeGet == <<"w", "e", "b", "a", "u", "t", "h", "n", ".", "g", "e", "t">>

Assertion(flags, counter) == [Flags |-> flags, Counter |-> counter]

\* CheckClientData without the check of the origin.
CheckClientDataNoOrigin(cd, type, rp, challenge) ==
    IF cd.err THEN Errorf("parsing client data")
    ELSE IF cd.v.Type # type THEN Errorf("invalid client data type")
    ELSE IF ~Equal(cd.v.Challenge, challenge) THEN Errorf("invalid client data challenge")
    ELSE nil

\* CheckClientData without the check of the challenge.
CheckClientDataNoChallenge(cd, type, rp, challenge) ==
    IF cd.err THEN Errorf("parsing client data")
    ELSE IF cd.v.Type # type THEN Errorf("invalid client data type")
    ELSE IF cd.v.Origin # rp.Origin THEN Errorf("invalid client data origin")
    ELSE nil

\* CheckClientData with the origin checked before the type.
CheckClientDataOriginFirst(cd, type, rp, challenge) ==
    IF cd.err THEN Errorf("parsing client data")
    ELSE IF cd.v.Origin # rp.Origin THEN Errorf("invalid client data origin")
    ELSE IF cd.v.Type # type THEN Errorf("invalid client data type")
    ELSE IF ~Equal(cd.v.Challenge, challenge) THEN Errorf("invalid client data challenge")
    ELSE nil

\* CheckClientData with the challenge checked before the type and the origin.
CheckClientDataChallengeFirst(cd, type, rp, challenge) ==
    IF cd.err THEN Errorf("parsing client data")
    ELSE IF ~Equal(cd.v.Challenge, challenge) THEN Errorf("invalid client data challenge")
    ELSE IF cd.v.Type # type THEN Errorf("invalid client data type")
    ELSE IF cd.v.Origin # rp.Origin THEN Errorf("invalid client data origin")
    ELSE nil

\* The checks every entry point makes of the decoded client data cd, in the
\* order it makes them: the error of the first that fails, or nil.
CheckClientData(cd, type, rp, challenge) ==
    IF cd.err THEN Errorf("parsing client data")
    ELSE IF cd.v.Type # type THEN Errorf("invalid client data type")
    ELSE IF cd.v.Origin # rp.Origin THEN Errorf("invalid client data origin")
    ELSE IF ~Equal(cd.v.Challenge, challenge) THEN Errorf("invalid client data challenge")
    ELSE nil

\* The result of VerifyAttestation from the parsed authenticator data.
AttestationResult(data) ==
    IF data.err # nil
        THEN [val |-> nil, err |-> Wrap("parsing authenticator data", data.err)]
    ELSE [val |-> data.val, err |-> nil]

\* VerifyAttestation after the client data: err is what its checks returned and
\* attObj the parsed attestation object.
VerifyAttestationData(rp, err, attObj) ==
    IF err # nil THEN [val |-> nil, err |-> err]
    ELSE IF attObj.err # nil
        THEN [val |-> nil, err |-> Wrap("parsing attestation object", attObj.err)]
    ELSE AttestationResult(ParseAuthenticatorData(rp.ID, attObj.val.AuthenticatorData))

VerifyAttestation(rp, challenge, clientDataJSON, attestationObject) ==
    VerifyAttestationData(rp,
        CheckClientData(Unmarshal(clientDataJSON), TypeCreate, rp, challenge),
        parseAttestationObject(attestationObject))

\* VerifyAttestationObject after the client data.
AttestationObjectResult(err, attObj) ==
    IF err # nil THEN [val |-> nil, err |-> err]
    ELSE IF attObj.err # nil
        THEN [val |-> nil, err |-> Wrap("parsing attestation object", attObj.err)]
    ELSE [val |-> attObj.val, err |-> nil]

VerifyAttestationObject(rp, challenge, clientDataJSON, attestationObject) ==
    AttestationObjectResult(
        CheckClientData(Unmarshal(clientDataJSON), TypeCreate, rp, challenge),
        parseAttestationObject(attestationObject))

\* VerifyAssertionData with the RP-ID hash compared before the signature is
\* looked at.
VerifyAssertionDataHashFirst(rp, err, sigErr, authData) ==
    IF err # nil THEN [val |-> nil, err |-> err]
    ELSE IF Len(authData) < RpidHashSize
        THEN [val |-> nil, err |-> Errorf("not enough bytes for rpid hash")]
    ELSE IF Sha256(Bytes(rp.ID)) # SubSeq(authData, 1, RpidHashSize)
        THEN [val |-> nil, err |-> Errorf("assertion issued for different relying party")]
    ELSE IF sigErr # nil
        THEN [val |-> nil, err |-> Wrap("invalid signature", sigErr)]
    ELSE IF Len(authData) < RpidHashSize + FlagSize + CounterSize
        THEN [val |-> nil, err |-> Errorf("not enough bytes for counter")]
    ELSE [val |-> Assertion(authData[RpidHashSize + 1],
                      Uint32(SubSeq(authData, RpidHashSize + FlagSize + 1,
                                    RpidHashSize + FlagSize + CounterSize))),
          err |-> nil]

\* VerifyAssertion after the client data: err is what its checks returned and
\* sigErr what VerifySignature returned for authData followed by the hash of
\* clientDataJSON.
VerifyAssertionData(rp, err, sigErr, authData) ==
    IF err # nil THEN [val |-> nil, err |-> err]
    ELSE IF sigErr # nil
        THEN [val |-> nil, err |-> Wrap("invalid signature", sigErr)]
    ELSE IF Len(authData) < RpidHashSize
        THEN [val |-> nil, err |-> Errorf("not enough bytes for rpid hash")]
    ELSE IF Sha256(Bytes(rp.ID)) # SubSeq(authData, 1, RpidHashSize)
        THEN [val |-> nil, err |-> Errorf("assertion issued for different relying party")]
    ELSE IF Len(authData) < RpidHashSize + FlagSize
        THEN [val |-> nil, err |-> Errorf("not enough bytes for flag")]
    ELSE IF Len(authData) < RpidHashSize + FlagSize + CounterSize
        THEN [val |-> nil, err |-> Errorf("not enough bytes for counter")]
    ELSE [val |-> Assertion(authData[RpidHashSize + 1],
                      Uint32(SubSeq(authData, RpidHashSize + FlagSize + 1,
                                    RpidHashSize + FlagSize + CounterSize))),
          err |-> nil]

\* VerifyAssertion without the verification of the signature.
VerifyAssertionUnsigned(rp, pub, alg, challenge, clientDataJSON, authData, sig) ==
    VerifyAssertionData(rp,
        CheckClientData(Unmarshal(clientDataJSON), TypeGet, rp, challenge), nil, authData)

VerifyAssertion(rp, pub, alg, challenge, clientDataJSON, authData, sig) ==
    VerifyAssertionData(rp,
        CheckClientData(Unmarshal(clientDataJSON), TypeGet, rp, challenge),
        VerifySignature(pub, alg, authData \o Sha256(Bytes(clientDataJSON)), sig),
        authData)

(***************************************************************************)
(* The callers' side: the documents a user agent writes and the bytes an   *)
(* authenticator emits, from which the calls below draw their arguments.   *)
(***************************************************************************)

\* Bounds of the model.
MaxCounter == 1
AlgSpread == 1
NumKeys == 1

IdA == <<"a", ".", "i", "o">>
IdB == <<"b", ".", "i", "o">>
OriginA == <<"h", "t", "t", "p", "s", ":", "/", "/", "a", ".", "i", "o">>
OriginB == <<"h", "t", "t", "p", "s", ":", "/", "/", "b", ".", "i", "o">>

RelyingParties == {RelyingParty(IdA, OriginA), RelyingParty(IdB, OriginB)}

\* Challenges, and the base64url text of each as the user agent writes it.
Challenges == {<<1, 2, 3>>, <<1>>}
Encoded(c) == IF c = <<1, 2, 3>> THEN <<"A", "Q", "I", "D">> ELSE <<"A", "Q">>

\* A client-data document; cross adds the optional member crossOrigin.
ClientDataJSON(type, challenge, origin, cross) ==
    <<"{", "\"", "t", "y", "p", "e", "\"", ":", "\"">> \o type
    \o <<"\"", ",", "\"", "c", "h", "a", "l", "l", "e", "n", "g", "e", "\"", ":", "\"">> \o challenge
    \o <<"\"", ",", "\"", "o", "r", "i", "g", "i", "n", "\"", ":", "\"">> \o origin
    \o (IF cross THEN <<"\"", ",", "\"", "c", "r", "o", "s", "s", "O", "r", "i", "g", "i", "n", "\"", ":", "f", "a", "l", "s", "e", "}">>
        ELSE <<"\"", "}">>)

Documents ==
    {ClientDataJSON(t, Encoded(c), o, FALSE) :
        t \in {TypeCreate, TypeGet}, c \in Challenges, o \in {OriginA, OriginB}}
    \cup {ClientDataJSON(t, Encoded(<<1>>), OriginA, TRUE) : t \in {TypeCreate, TypeGet}}
    \cup {<<"{", "\"", "t", "y", "p", "e", "\"", ":", "\"", "w", "e", "b", "a", "u", "t", "h", "n", ".", "c", "r", "e", "a", "t", "e", "\"", ",", "\"", "o", "r", "i", "g", "i", "n", "\"", ":", "\"", "h", "t", "t", "p", "s", ":", "/", "/", "a", ".", "i", "o", "\"", "}">>,
          <<"{", "\"", "t", "y", "p", "e", "\"", ":", "\"", "w", "e", "b", "a", "u", "t", "h", "n", ".", "g", "e", "t", "\"", ",", "\"", "c", "h", "a", "l", "l", "e", "n", "g", "e", "\"", ":", "\"", "A", "\"", ",", "\"", "o", "r", "i", "g", "i", "n", "\"", ":", "\"", "h", "t", "t", "p", "s", ":", "/", "/", "a", ".", "i", "o", "\"", "}">>,
          <<"{", "\"", "t", "y", "p", "e", "\"", ":", "\"", "w", "e", "b", "a", "u", "t", "h", "n", ".", "g", "e", "t", "\"", ",", "\"", "o", "r", "i", "g", "i", "n", "\"", ":", "\"", "h", "t", "t", "p", "s", ":", "/", "/", "a", ".", "i", "o", "\"">>}

\* CBOR as an authenticator writes it: short text and byte strings.
TextItem(s) == <<96 + Len(s)>> \o Bytes(s)
BytesItem(x) == IF Len(x) < 24 THEN <<64 + Len(x)>> \o x ELSE <<88, Len(x)>> \o x

\* COSE_Key maps: an ES256 key on P-256 with one-byte coordinates, and an
\* entry-less map.
CoseES256 == <<165, 1, 2, 3, 38, 32, 1, 33, 65, 7, 34, 65, 9>>
CoseEmpty == <<160>>

Aaguid == [i \in 1..AaguidSize |-> i]

\* The counter n as four big-endian bytes.
CounterBytes(n) == <<0, 0, n \div 256, n % 256>>

\* rpIdHash, flags, counter
AuthDataHeader(id, flags, n) == Sha256(Bytes(id)) \o <<flags>> \o CounterBytes(n)

\* ... followed by the attested credential data and the extensions.
AuthDataAttested(id, flags, n, credID, key, ext) ==
    AuthDataHeader(id, flags, n) \o Aaguid \o <<0, Len(credID)>> \o credID \o key \o ext

AttestedAuthData ==
    {AuthDataAttested(IdA, 65, n, <<5, 6>>, CoseES256, <<>>) : n \in 0..MaxCounter}
    \cup {AuthDataAttested(IdB, 65, 1, <<5, 6>>, CoseES256, <<>>),
          AuthDataAttested(IdA, 193, 1, <<5>>, CoseES256, <<161, 1, 2>>),
          AuthDataAttested(IdA, 65, 1, <<5>>, CoseEmpty, <<>>),
          AuthDataAttested(IdA, 1, 1, <<5>>, CoseES256, <<>>),
          AuthDataAttested(IdA, 65, 1, <<5>>, CoseES256, <<161, 1, 2>>),
          AuthDataAttested(IdA, 193, 1, <<5>>, CoseES256, <<>>),
          AuthDataAttested(IdA, 193, 1, <<5>>, CoseES256, <<161, 1>>),
          AuthDataAttested(IdA, 193, 1, <<5>>, CoseES256, <<1, 2>>),
          AuthDataHeader(IdA, 1, 1),
          SubSeq(AuthDataHeader(IdA, 1, 1), 1, RpidHashSize),
          SubSeq(AuthDataHeader(IdB, 1, 1), 1, RpidHashSize - 1)}

\* An attestation object with the three keys in the order authenticators use.
AttestationObjectBytes(fmt, attStmt, authData) ==
    <<163>> \o TextItem(<<"f", "m", "t">>) \o TextItem(fmt)
    \o TextItem(<<"a", "t", "t", "S", "t", "m", "t">>) \o attStmt
    \o TextItem(<<"a", "u", "t", "h", "D", "a", "t", "a">>) \o BytesItem(authData)

FmtNone == <<"n", "o", "n", "e">>

\* ... and with a fourth key, x, after them.
AttestationObjectWithUnknownKey(fmt, attStmt, authData) ==
    <<164>> \o From(AttestationObjectBytes(fmt, attStmt, authData), 1)
    \o TextItem(<<"x">>) \o <<1>>

AttestationObjects ==
    {AttestationObjectBytes(FmtNone, <<160>>, a) : a \in AttestedAuthData}
    \cup {AttestationObjectBytes(FmtNone, <<160>>, <<>>),
          AttestationObjectWithUnknownKey(FmtNone, <<160>>,
              AuthDataAttested(IdA, 65, 0, <<5, 6>>, CoseES256, <<>>)),
          AttestationObjectBytes(FmtNone, <<160>>, AuthDataHeader(IdA, 1, 1)) \o <<0>>,
          <<161>> \o TextItem(<<"a", "u", "t", "h", "D", "a", "t", "a">>)
                  \o BytesItem(AuthDataAttested(IdA, 65, 0, <<>>, CoseES256, <<>>)),
          <<128>>}

\* Public keys of every dynamic type VerifySignature can be handed.
Keys ==
    {PublicKey("*ecdsa.PublicKey", c, <<k>>) :
        c \in {"P-256", "P-384", "P-521"}, k \in 1..NumKeys}
    \cup {PublicKey(t, "", <<k>>) :
        t \in {"*ed25519.PublicKey", "ed25519.PublicKey", "*rsa.PublicKey"},
        k \in 1..NumKeys}
    \cup {NoKey}

KnownAlgorithms == {ES256, ES384, ES512, EdDSA, RS256, RS384, RS512}

\* Algorithm values: the recognized ones, their neighbours, their negations, 0
\* and a far value.
Algorithms ==
    {a + d : a \in KnownAlgorithms, d \in (-AlgSpread)..AlgSpread}
    \cup {-a : a \in KnownAlgorithms} \cup {0, -9999}

\* What the holder of pub's private half signs for alg: the scheme and digest
\* VerifySignature pairs with alg (for an unrecognized alg, those of ES256).
Sign(pub, alg, data) ==
    CASE alg = ES384 -> SignatureOf(pub, 1, Sha384(data))
      [] alg = ES512 -> SignatureOf(pub, 1, Sha512(data))
      [] alg = EdDSA -> SignatureOf(pub, 2, Sha512(data))
      [] alg = RS256 -> SignatureOf(pub, cryptoSHA256, Sha256(data))
      [] alg = RS384 -> SignatureOf(pub, cryptoSHA384, Sha384(data))
      [] alg = RS512 -> SignatureOf(pub, cryptoSHA512, Sha512(data))
      [] OTHER -> SignatureOf(pub, 1, Sha256(data))

BadSignature == <<48, 0>>

\* Authenticator data of an assertion: the header alone, with a byte after
\* it, or cut short.
AssertionAuthData ==
    {AuthDataHeader(IdA, 1, n) : n \in 0..MaxCounter}
    \cup {AuthDataHeader(IdB, 1, 1),
          AuthDataHeader(IdA, 5, 1) \o <<9>>,
          SubSeq(AuthDataHeader(IdA, 1, 1), 1, RpidHashSize + CounterSize),
          SubSeq(AuthDataHeader(IdA, 1, 1), 1, RpidHashSize),
          SubSeq(AuthDataHeader(IdA, 1, 1), 1, RpidHashSize - 1)}

\* The (key, algorithm) pairs assertions are verified with.
AssertionKeys ==
    {<<PublicKey("*ecdsa.PublicKey", "P-256", <<1>>), ES256>>,
     <<PublicKey("ed25519.PublicKey", "", <<1>>), EdDSA>>,
     <<PublicKey("*rsa.PublicKey", "", <<1>>), RS384>>,
     <<PublicKey("*rsa.PublicKey", "", <<1>>), ES512>>,
     <<PublicKey("*ecdsa.PublicKey", "P-256", <<1>>), -9999>>}

(***************************************************************************)
(* Package plist of the macOS example: property list objects and their     *)
(* XML encoding.  An object is a record; a Dictionary is a pointer into    *)
(* the variable entries.                                                   *)
(***************************************************************************)

\* String, Bool, Int, Array and a *Dictionary as Object values.
plistString(s) ==
    [val |-> 0, kind |-> "string", str |-> s, bool |-> FALSE, members |-> <<>>]
plistBool(b) ==
    [val |-> 0, kind |-> "bool", str |-> <<>>, bool |-> b, members |-> <<>>]
plistInt(i) ==
    [val |-> i, kind |-> "integer", str |-> <<>>, bool |-> FALSE, members |-> <<>>]
plistArray(objs) ==
    [val |-> 0, kind |-> "array", str |-> <<>>, bool |-> FALSE, members |-> objs]
Dictionary(ptr) ==
    [val |-> ptr, kind |-> "dict", str |-> <<>>, bool |-> FALSE, members |-> <<>>]

dictEntry(key, value) == [key |-> key, value |-> value]

\* xml.EscapeText of one character and of a text.
EscapeChar(c) ==
    CASE c = "<" -> <<"&", "l", "t", ";">>
      [] c = ">" -> <<"&", "g", "t", ";">>
      [] c = "&" -> <<"&", "a", "m", "p", ";">>
      [] c = "'" -> <<"&", "#", "3", "9", ";">>
      [] c = "\"" -> <<"&", "#", "3", "4", ";">>
      [] c = "\t" -> <<"&", "#", "x", "9", ";">>
      [] c = "\n" -> <<"&", "#", "x", "A", ";">>
      [] c = "\r" -> <<"&", "#", "x", "D", ";">>
      [] OTHER -> <<c>>

RECURSIVE EscapeFrom(_, _)
EscapeFrom(s, i) ==
    IF i > Len(s) THEN <<>> ELSE EscapeChar(s[i]) \o EscapeFrom(s, i + 1)

EscapeText(s) == EscapeFrom(s, 1)

\* strconv.Itoa
DecimalDigits == <<"0", "1", "2", "3", "4", "5", "6", "7", "8", "9">>

RECURSIVE FormatUint(_)
FormatUint(n) ==
    IF n < 10 THEN <<DecimalDigits[n + 1]>>
    ELSE FormatUint(n \div 10) \o <<DecimalDigits[(n % 10) + 1]>>

Itoa(i) == IF i < 0 THEN <<"-">> \o FormatUint(-i) ELSE FormatUint(i)

\* encodePlist of the object obj, the dictionaries being es; of the objects
\* objs[i..] one after the other; and of the entries d[i..] of a dictionary.
RECURSIVE encodePlist(_, _)
RECURSIVE encodeObjects(_, _, _)
RECURSIVE encodeEntries(_, _, _)

encodeDictionary(es, ptr) ==
    <<"<", "d", "i", "c", "t", ">">> \o encodeEntries(es, es[ptr], 1) \o <<"<", "/", "d", "i", "c", "t", ">">>

encodePlist(es, obj) ==
    CASE obj.kind = "string" ->
           <<"<", "s", "t", "r", "i", "n", "g", ">">> \o EscapeText(obj.str) \o <<"<", "/", "s", "t", "r", "i", "n", "g", ">">>
      [] obj.kind = "bool" ->
           IF obj.bool THEN <<"<", "t", "r", "u", "e", "/", ">">> ELSE <<"<", "f", "a", "l", "s", "e", "/", ">">>
      [] obj.kind = "integer" ->
           <<"<", "i", "n", "t", "e", "g", "e", "r", ">">> \o EscapeText(Itoa(obj.val)) \o <<"<", "/", "i", "n", "t", "e", "g", "e", "r", ">">>
      [] obj.kind = "array" ->
           <<"<", "a", "r", "r", "a", "y", ">">> \o encodeObjects(es, obj.members, 1) \o <<"<", "/", "a", "r", "r", "a", "y", ">">>
      [] obj.kind = "dict" -> encodeDictionary(es, obj.val)

encodeObjects(es, objs, i) ==
    IF i > Len(objs) THEN <<>>
    ELSE encodePlist(es, objs[i]) \o encodeObjects(es, objs, i + 1)

encodeEntries(es, d, i) ==
    IF i > Len(d) THEN <<>>
    ELSE <<"<", "k", "e", "y", ">">> \o EscapeText(d[i].key) \o <<"<", "/", "k", "e", "y", ">">>
         \o encodePlist(es, d[i].value) \o encodeEntries(es, d, i + 1)

\* Dict: the dictionaries after a new one was made, and the new one.
Dict(es) == [entries |-> Append(es, <<>>), ret |-> Len(es) + 1]

\* Dictionary.Add in which a key replaces the entries that have it.
AddReplacing(es, d, key, value) ==
    [entries |-> [es EXCEPT ![d] = SelectSeq(@, LAMBDA e : e.key # key)
                                     \o <<dictEntry(key, value)>>],
     ret |-> d]

\* Dictionary.Add on the dictionary d: the dictionaries after the call and
\* the dictionary returned.
Add(es, d, key, value) ==
    [entries |-> [es EXCEPT ![d] = Append(@, dictEntry(key, value))],
     ret |-> d]

(***************************************************************************)
(* The state: the last call made on the package and, when that call was    *)
(* derived from the one before it, the call before it.                     *)
(***************************************************************************)

VARIABLES last, prev

\* The dictionaries made so far, each the list of its entries; the Add calls
\* made on each of them, in call order; and the last Add call's receiver and
\* result.
VARIABLES entries, added, returned

plistVars == <<entries, added, returned>>

vars == <<last, prev, entries, added, returned>>

Input(rp, challenge, clientDataJSON, attestationObject, pub, alg, authData, sig) ==
    [rp |-> rp, challenge |-> challenge, clientDataJSON |-> clientDataJSON,
     attestationObject |-> attestationObject, pub |-> pub, alg |-> alg,
     authData |-> authData, sig |-> sig]

NoInput == Input(RelyingParty(<<>>, <<>>), <<>>, <<>>, <<>>, NoKey, 0, <<>>, <<>>)

\* A call: the operation, its arguments and what it returned.
Call(op, in, out) == [op |-> op, in |-> in, out |-> out]

NoCall == Call("none", NoInput, [val |-> nil, err |-> nil])

Accepted(c) == c.op # "none" /\ c.out.err = nil

\* The calls of the five operations.  VerifySignature takes in.authData as its
\* data and ParseAuthenticatorData takes it as b.
AttestationCall(in) ==
    Call("VerifyAttestation", in,
         VerifyAttestation(in.rp, in.challenge, in.clientDataJSON, in.attestationObject))

AttestationObjectCall(in) ==
    Call("VerifyAttestationObject", in,
         VerifyAttestationObject(in.rp, in.challenge, in.clientDataJSON,
                                 in.attestationObject))

AssertionCall(in) ==
    Call("VerifyAssertion", in,
         VerifyAssertion(in.rp, in.pub, in.alg, in.challenge, in.clientDataJSON,
                         in.authData, in.sig))

SignatureCall(in) ==
    Call("VerifySignature", in,
         [val |-> nil, err |-> VerifySignature(in.pub, in.alg, in.authData, in.sig)])

AuthenticatorDataCall(in) ==
    Call("ParseAuthenticatorData", in, ParseAuthenticatorData(in.rp.ID, in.authData))

AttestationOps == {"VerifyAttestation", "VerifyAttestationObject"}
ClientDataOps == AttestationOps \cup {"VerifyAssertion"}

\* The call of one of the two attestation entry points.
AttestationOpCall(op, in) ==
    IF op = "VerifyAttestation" THEN AttestationCall(in) ELSE AttestationObjectCall(in)

\* The call of one of the three entry points that take clientDataJSON.
ClientDataOpCall(op, in) ==
    IF op = "VerifyAssertion" THEN AssertionCall(in) ELSE AttestationOpCall(op, in)

NoAdd == [recv |-> 0, ret |-> 0]

Init ==
    /\ last = NoCall /\ prev = NoCall
    /\ entries = <<>> /\ added = <<>> /\ returned = NoAdd

\* A call with arguments of the caller's choice, made when no call is recorded.
Fresh(c) == last' = c /\ prev' = NoCall /\ UNCHANGED plistVars

\* A call derived from the last one, which was not itself derived.
Derived(c) ==
    prev = NoCall /\ last' = c /\ prev' = last /\ UNCHANGED plistVars

CallVerifyAttestation ==
    /\ last = NoCall
    /\ \E rp \in RelyingParties, c \in Challenges, d \in Documents, a \in AttestationObjects :
           Fresh(AttestationCall(Input(rp, c, d, a, NoKey, 0, <<>>, <<>>)))

CallVerifyAttestationObject ==
    /\ last = NoCall
    /\ \E rp \in RelyingParties, c \in Challenges, d \in Documents, a \in AttestationObjects :
           Fresh(AttestationObjectCall(Input(rp, c, d, a, NoKey, 0, <<>>, <<>>)))

\* The signature is that of the key over what the authenticator signs, or an
\* unrelated one.
CallVerifyAssertion ==
    /\ last = NoCall
    /\ \E rp \in RelyingParties, c \in Challenges, d \in Documents, ka \in AssertionKeys,
          a \in AssertionAuthData, good \in BOOLEAN :
           Fresh(AssertionCall(Input(rp, c, d, <<>>, ka[1], ka[2], a,
                                     IF good THEN Sign(ka[1], ka[2], a \o Sha256(Bytes(d)))
                                     ELSE BadSignature)))

SignedData == <<1, 2, 3>>

\* The signature is the key's under the algorithm signer, or an unrelated one.
CallVerifySignature ==
    /\ last = NoCall
    /\ \E pub \in Keys, alg \in Algorithms, signer \in KnownAlgorithms \cup {0} :
           Fresh(SignatureCall(Input(RelyingParty(<<>>, <<>>), <<>>, <<>>, <<>>, pub, alg,
                                     SignedData,
                                     IF signer = 0 THEN BadSignature
                                     ELSE Sign(pub, signer, SignedData))))

\* Authenticator data as emitted, and with one byte of the hash changed.
CallParseAuthenticatorData ==
    /\ last = NoCall
    /\ \E id \in {IdA, IdB}, a \in AttestedAuthData, p \in 0..RpidHashSize :
        /\ p <= Len(a)
        /\ Fresh(AuthenticatorDataCall(
                    Input(RelyingParty(id, <<>>), <<>>, <<>>, <<>>, NoKey, 0,
                          IF p = 0 THEN a ELSE SetAt(a, p, (a[p] + 1) % 256), <<>>)))

\* Flag bytes and counters an authenticator may send, and what may follow them.
FlagBytes == {0, 1, 255}
Counters == {<<0, 0, 0, 0>>, <<0, 1, 0, 0>>, <<128, 0, 0, 1>>, <<255, 255, 255, 255>>}
Trailers == {<<>>, <<9, 9>>}

\* An assertion whose authenticator data is cut after k bytes, signed by the
\* key as cut.
AssertionPrefixCall(a) ==
    AssertionCall(Input(RelyingParty(IdA, OriginA), <<1>>,
                        ClientDataJSON(TypeGet, Encoded(<<1>>), OriginA, FALSE), <<>>,
                        PublicKey("*ecdsa.PublicKey", "P-256", <<1>>), ES256, a,
                        Sign(PublicKey("*ecdsa.PublicKey", "P-256", <<1>>), ES256,
                             a \o Sha256(Bytes(ClientDataJSON(TypeGet, Encoded(<<1>>),
                                                              OriginA, FALSE))))))

CallVerifyAssertionPrefix ==
    /\ last = NoCall
    /\ \E f \in FlagBytes, c \in Counters, t \in Trailers,
          k \in 0..(RpidHashSize + FlagSize + CounterSize + 2) :
           /\ k <= RpidHashSize + FlagSize + CounterSize + Len(t)
           /\ Fresh(AssertionPrefixCall(
                        SubSeq(Sha256(Bytes(IdA)) \o <<f>> \o c \o t, 1, k)))

\* Authenticator data whose credential ID is announced with the length bytes
\* hi and lo and followed by a key.
AuthDataWithLength(hi, lo, credID) ==
    AuthDataHeader(IdA, 65, 1) \o Aaguid \o <<hi, lo>> \o credID \o CoseES256

AuthDataWithLengths ==
    {AuthDataWithLength(0, 0, <<>>), AuthDataWithLength(0, 3, <<5, 6, 7>>),
     AuthDataWithLength(1, 0, <<5, 6, 7>>), AuthDataWithLength(255, 255, <<5, 6, 7>>)}

\* ParseAuthenticatorData on authenticator data cut after k bytes.
CallParseAuthenticatorDataPrefix ==
    /\ last = NoCall
    /\ \E a \in AuthDataWithLengths, k \in 0..(Len(AuthDataWithLength(0, 3, <<5, 6, 7>>))) :
           /\ k <= Len(a)
           /\ Fresh(AuthenticatorDataCall(
                        Input(RelyingParty(IdA, <<>>), <<>>, <<>>, <<>>, NoKey, 0,
                              SubSeq(a, 1, k), <<>>)))

\* The start of a document, up to the value of type.
TypePrefix == <<"{", "\"", "t", "y", "p", "e", "\"", ":", "\"">>

\* A document of origin a.io without the member challenge, and one in which it
\* is the empty string.
NoChallengeJSON(type) ==
    TypePrefix \o type \o <<"\"", ",", "\"", "o", "r", "i", "g", "i", "n", "\"", ":", "\"">>
    \o OriginA \o <<"\"", "}">>

EmptyChallengeJSON(type) == ClientDataJSON(type, <<>>, OriginA, FALSE)

ChallengelessDocuments(type) == {NoChallengeJSON(type), EmptyChallengeJSON(type)}

\* The three entry points called with such a document and a challenge that is
\* empty or not, everything else being in order.
CallWithoutChallenge ==
    /\ last = NoCall
    /\ \E c \in Challenges \cup {<<>>} :
         \/ \E op \in AttestationOps, d \in ChallengelessDocuments(TypeCreate) :
               Fresh(AttestationOpCall(op,
                        Input(RelyingParty(IdA, OriginA), c, d,
                              AttestationObjectBytes(FmtNone, <<160>>,
                                  AuthDataAttested(IdA, 65, 0, <<5, 6>>, CoseES256, <<>>)),
                              NoKey, 0, <<>>, <<>>)))
         \/ \E d \in ChallengelessDocuments(TypeGet) :
               Fresh(AssertionCall(
                        Input(RelyingParty(IdA, OriginA), c, d, <<>>,
                              PublicKey("*ecdsa.PublicKey", "P-256", <<1>>), ES256,
                              AuthDataHeader(IdA, 1, 1),
                              Sign(PublicKey("*ecdsa.PublicKey", "P-256", <<1>>), ES256,
                                   AuthDataHeader(IdA, 1, 1) \o Sha256(Bytes(d))))))

\* The same letter in the other case; any other byte unchanged.
FlipByte(n) ==
    IF n >= 65 /\ n <= 90 THEN n + 32
    ELSE IF n >= 97 /\ n <= 122 THEN n - 32
    ELSE n

FlipCase(c) == Ascii[FlipByte(Ord(c)) - 31]

\* The characters a tampered document gets in place of c.
TamperChars(c) == ({FlipCase(c), "R"}) \ {c}

\* An accepted request is made again with one byte of clientDataJSON changed.
ReplayTamperedClientData ==
    /\ last.op \in ClientDataOps /\ Accepted(last)
    /\ \E p \in 1..Len(last.in.clientDataJSON) :
         \E c \in TamperChars(last.in.clientDataJSON[p]) :
            Derived(ClientDataOpCall(last.op,
                        [last.in EXCEPT !.clientDataJSON = SetAt(@, p, c)]))

\* An accepted assertion is made again with one byte of authData changed.
ReplayTamperedAuthData ==
    /\ last.op = "VerifyAssertion" /\ Accepted(last)
    /\ \E p \in 1..Len(last.in.authData) :
            Derived(AssertionCall(
                        [last.in EXCEPT !.authData = SetAt(@, p, (@[p] + 1) % 256)]))

\* An accepted assertion is made again with one byte of sig changed.
ReplayTamperedSignature ==
    /\ last.op = "VerifyAssertion" /\ Accepted(last)
    /\ \E p \in 1..Len(last.in.sig) :
            Derived(AssertionCall(
                        [last.in EXCEPT !.sig = SetAt(@, p, (@[p] + 1) % 256)]))

\* The authenticator data a with byte p changed, in an attestation object of
\* format none.
TamperedAttestationObject(a, p) ==
    AttestationObjectBytes(FmtNone, <<160>>, SetAt(a, p, (a[p] + 1) % 256))

\* An accepted attestation is made again with one byte of the RP-ID hash in
\* the authenticator data changed.
ReplayTamperedRpIdHash ==
    /\ last.op \in AttestationOps /\ Accepted(last)
    /\ \E p \in 1..RpidHashSize :
         /\ p <= Len(parseAttestationObject(last.in.attestationObject).val.AuthenticatorData)
         /\ Derived(AttestationOpCall(last.op,
            [last.in EXCEPT !.attestationObject =
                TamperedAttestationObject(
                    parseAttestationObject(@).val.AuthenticatorData, p)]))

\* webauthn.create in another letter case.
TypeCased == <<"W", "e", "b", "a", "u", "t", "h", "n", ".", "c", "r", "e", "a", "t", "e">>

\* The values type is replaced by.
OtherTypes == {<<>>, TypeGet, TypeCased, <<"w", "e", "b", "a", "u", "t", "h", "n", ".", "c", "r", "e", "a", "t">>,
               <<"w", "e", "b", "a", "u", "t", "h", "n", ".", "c", "r", "e", "a", "t", "e", " ">>}

\* clientDataJSON with the value of type, which is webauthn.create, replaced by t.
WithType(clientDataJSON, t) ==
    TypePrefix \o t \o From(clientDataJSON, Len(TypePrefix) + Len(TypeCreate))

\* A document VerifyAttestation accepted is presented with another value of
\* type to either attestation entry point, with any relying party and
\* challenge, and with the same or a malformed attestation object.
ReplayOtherType ==
    /\ last.op = "VerifyAttestation" /\ Accepted(last)
    /\ HasWord(last.in.clientDataJSON, 1, TypePrefix \o TypeCreate)
    /\ \E op \in AttestationOps, t \in OtherTypes, rp \in RelyingParties, c \in Challenges,
          a \in {last.in.attestationObject, <<128>>} :
            Derived(AttestationOpCall(op,
                [last.in EXCEPT !.clientDataJSON = WithType(@, t), !.rp = rp,
                                !.challenge = c, !.attestationObject = a]))

\* The arguments of an attestation call are handed to the other entry point.
CallOtherAttestationOp ==
    /\ last.op \in AttestationOps
    /\ \E op \in AttestationOps \ {last.op} : Derived(AttestationOpCall(op, last.in))

\* The recorded calls are forgotten: calls share no state.
Forget ==
    last # NoCall /\ last' = NoCall /\ prev' = NoCall /\ UNCHANGED plistVars

Next ==
    \/ CallVerifyAttestation
    \/ CallVerifyAttestationObject
    \/ CallVerifyAssertion
    \/ CallVerifySignature
    \/ CallParseAuthenticatorData
    \/ CallVerifyAssertionPrefix
    \/ CallParseAuthenticatorDataPrefix
    \/ CallWithoutChallenge
    \/ ReplayTamperedClientData
    \/ ReplayTamperedAuthData
    \/ ReplayTamperedSignature
    \/ ReplayTamperedRpIdHash
    \/ ReplayOtherType
    \/ CallOtherAttestationOp
    \/ Forget

Spec == Init /\ [][Next]_vars

(***************************************************************************)
(* The program of the macOS example as a user of package plist: it makes   *)
(* dictionaries and adds entries to them.                                  *)
(***************************************************************************)

MaxDicts == 2
MaxAdds == 3

PlistKeys == {<<"a">>, <<"<", "a", ">">>}

\* The array of TestMarshal.
TestArray ==
    plistArray(<<plistString(<<"h", "e", "l", "l", "o">>), plistBool(TRUE), plistInt(1),
                 plistInt(-2344)>>)

\* The values the program adds to the dictionary d: strings, integers,
\* arrays and the dictionary made after d.
PlistValues(d) ==
    {plistString(<<"h", "e", "l", "l", "o">>), plistInt(-2344), TestArray}
        \cup {Dictionary(q) : q \in {d + 1} \cap (1..Len(entries))}

RECURSIVE AddsFrom(_)
AddsFrom(i) == IF i > Len(added) THEN 0 ELSE Len(added[i]) + AddsFrom(i + 1)

CallDict ==
    /\ Len(entries) < MaxDicts
    /\ entries' = Dict(entries).entries
    /\ added' = Append(added, <<>>)
    /\ UNCHANGED <<last, prev, returned>>

CallAdd ==
    /\ AddsFrom(1) < MaxAdds
    /\ \E d \in 1..Len(entries), key \in PlistKeys :
         \E value \in PlistValues(d) :
            /\ entries' = Add(entries, d, key, value).entries
            /\ returned' = [recv |-> d, ret |-> Add(entries, d, key, value).ret]
            /\ added' = [added EXCEPT ![d] = Append(@, dictEntry(key, value))]
    /\ UNCHANGED <<last, prev>>

PlistNext == CallDict \/ CallAdd

PlistSpec == Init /\ [][PlistNext]_vars

(***************************************************************************)
(* Properties.  Each is a predicate on the recorded calls: last, and prev  *)
(* when last was derived from it.                                          *)
(***************************************************************************)

\* The client data of call c passes the three checks for the ceremony type.
ClientDataPasses(c, type) ==
    LET cd == Unmarshal(c.in.clientDataJSON)
    IN  /\ ~cd.err
        /\ cd.v.Type = type
        /\ cd.v.Origin = c.in.rp.Origin
        /\ cd.v.Challenge = c.in.challenge

\* The value of type in the document of call c; none when it does not decode.
TypeOf(c) ==
    LET cd == Unmarshal(c.in.clientDataJSON)
    IN  IF cd.err THEN <<"n", "o", "n", "e">> ELSE cd.v.Type

\* The authData of the attestation object of call c; empty when it does not parse.
AuthDataOf(c) ==
    LET o == parseAttestationObject(c.in.attestationObject)
    IN  IF o.err = nil THEN o.val.AuthenticatorData ELSE <<>>

\* b starts with the SHA-256 of the relying party ID.
HasRpIdHash(b, rp) ==
    Len(b) >= RpidHashSize /\ SubSeq(b, 1, RpidHashSize) = Sha256(Bytes(rp.ID))

\* Call d is call c made again with nothing but clientDataJSON, authData, sig
\* or attestationObject (the one named) different.
SameBut(c, d, field) ==
    /\ c.op = d.op
    /\ \A f \in DOMAIN c.in : f # field => c.in[f] = d.in[f]
    /\ c.in[field] # d.in[field]

\* C1: VerifyAttestation returns a result only if the type is webauthn.create,
\* the origin is rp.Origin, the decoded challenge is the challenge argument and
\* authData starts with SHA-256(rp.ID); when it returns an error the result is nil.
C1_AttestationRequires ==
    last.op = "VerifyAttestation" =>
        /\ Accepted(last) =>
            /\ ClientDataPasses(last, TypeCreate)
            /\ HasRpIdHash(AuthDataOf(last), last.in.rp)
        /\ ~Accepted(last) => last.out.val = nil

C1_Witness ==
    /\ last.op = "VerifyAttestation" /\ Accepted(last)
    /\ last.out.val.CredentialID = <<5, 6>>

\* C2: VerifyAssertion returns an Assertion only if the type is webauthn.get,
\* the origin and challenge match, sig is the signature of pub under alg over
\* authData followed by SHA-256 of the bytes of clientDataJSON as received, and
\* authData starts with SHA-256(rp.ID); it accepts no document of type
\* webauthn.create and the attestation entry points accept none of type
\* webauthn.get.
C2_AssertionRequires ==
    /\ (last.op = "VerifyAssertion" /\ Accepted(last)) =>
        /\ ClientDataPasses(last, TypeGet)
        /\ last.in.alg \in KnownAlgorithms
        /\ last.in.sig = Sign(last.in.pub, last.in.alg,
                              last.in.authData \o Sha256(Bytes(last.in.clientDataJSON)))
        /\ HasRpIdHash(last.in.authData, last.in.rp)
    /\ (last.op = "VerifyAssertion" /\ TypeOf(last) = TypeCreate) => ~Accepted(last)
    /\ (last.op \in AttestationOps /\ TypeOf(last) = TypeGet) => ~Accepted(last)

C2_Witness ==
    /\ last.op = "VerifyAssertion" /\ Accepted(last)
    /\ last.in.alg = RS384 /\ last.out.val.Flags = 5

\* C3: an accepted assertion made again with one byte of authData or one byte
\* of sig changed fails with InvalidSignature.
C3_TamperedAssertion ==
    (/\ prev.op = "VerifyAssertion" /\ Accepted(prev)
     /\ \/ (SameBut(prev, last, "authData")
             /\ OneByteChange(prev.in.authData, last.in.authData))
        \/ (SameBut(prev, last, "sig") /\ OneByteChange(prev.in.sig, last.in.sig)))
    => Kind(last.out.err) = "InvalidSignature"

\* The changed byte is inside the RP-ID hash.
C3_Witness ==
    /\ prev.op = "VerifyAssertion" /\ Accepted(prev)
    /\ SameBut(prev, last, "authData")
    /\ OneByteChange(prev.in.authData, last.in.authData)
    /\ ~HasRpIdHash(last.in.authData, last.in.rp)
    /\ Kind(last.out.err) = "InvalidSignature"

\* C4: an accepted attestation made again with one byte of authData[0:32]
\* changed fails with RelyingPartyMismatch, and so does ParseAuthenticatorData
\* on any 32 bytes or more that do not start with SHA-256(rpID).
C4_RelyingPartyMismatch ==
    /\ (/\ prev.op = "VerifyAttestation" /\ Accepted(prev)
        /\ SameBut(prev, last, "attestationObject")
        /\ OneByteChange(AuthDataOf(prev), AuthDataOf(last))
        /\ SubSeq(AuthDataOf(prev), 1, RpidHashSize)
             # SubSeq(AuthDataOf(last), 1, RpidHashSize))
       => Kind(last.out.err) = "RelyingPartyMismatch"
    /\ (/\ last.op = "ParseAuthenticatorData"
        /\ Len(last.in.authData) >= RpidHashSize
        /\ ~HasRpIdHash(last.in.authData, last.in.rp))
       => Kind(last.out.err) = "RelyingPartyMismatch"

C4_Witness ==
    /\ prev.op = "VerifyAttestation" /\ Accepted(prev)
    /\ SameBut(prev, last, "attestationObject")
    /\ OneByteChange(AuthDataOf(prev), AuthDataOf(last))
    /\ Kind(last.out.err) = "RelyingPartyMismatch"

\* C5: a document VerifyAttestation accepted, with the value of type replaced
\* by another string, is rejected by both attestation entry points with
\* ClientDataTypeMismatch, whatever the other arguments.
C5_OtherType ==
    (/\ prev.op = "VerifyAttestation" /\ Accepted(prev)
     /\ last.op \in AttestationOps
     /\ \E t \in OtherTypes : last.in.clientDataJSON = WithType(prev.in.clientDataJSON, t))
    => Kind(last.out.err) = "ClientDataTypeMismatch"

\* The type differs in letter case only, and neither the origin nor the
\* challenge nor the attestation object would pass.
C5_Witness ==
    /\ prev.op = "VerifyAttestation" /\ Accepted(prev)
    /\ last.op = "VerifyAttestationObject"
    /\ last.in.clientDataJSON = WithType(prev.in.clientDataJSON, TypeCased)
    /\ last.in.rp # prev.in.rp /\ last.in.challenge # prev.in.challenge
    /\ last.in.attestationObject = <<128>>
    /\ Kind(last.out.err) = "ClientDataTypeMismatch"

\* Call last is the accepted call prev made again with exactly one byte of
\* clientDataJSON changed.
OneClientDataByteChanged ==
    /\ prev.op \in ClientDataOps /\ Accepted(prev)
    /\ SameBut(prev, last, "clientDataJSON")
    /\ OneByteChange(prev.in.clientDataJSON, last.in.clientDataJSON)

\* C6 as claimed: an accepted call made again with one byte of clientDataJSON
\* changed fails, at every entry point.
C6_AnyByteFails == OneClientDataByteChanged => ~Accepted(last)

\* C6: an accepted assertion made again with one byte of clientDataJSON changed
\* fails; an accepted attestation made again with one byte changed fails exactly
\* when the changed document does not decode or decodes to another type, origin
\* or challenge.
C6_DecodedChangeFails ==
    OneClientDataByteChanged =>
        /\ last.op = "VerifyAssertion" => ~Accepted(last)
        /\ last.op \in AttestationOps =>
             (Accepted(last) <=> ClientDataPasses(last, TypeCreate))

\* A changed document that an attestation entry point accepts.
C6_Witness ==
    /\ OneClientDataByteChanged
    /\ last.op = "VerifyAttestation" /\ Accepted(last)

\* The kind of the first check of call c that fails, in the order client-data
\* parse, type, origin, challenge, then attestation-object parse and
\* authenticator-data parse (attestation), or signature, RP-ID hash and
\* lengths (assertion); none when every check passes.
FirstFailure(c) ==
    LET cd == Unmarshal(c.in.clientDataJSON)
        a == c.in.authData
    IN  IF cd.err THEN "MalformedClientData"
        ELSE IF cd.v.Type # (IF c.op = "VerifyAssertion" THEN TypeGet ELSE TypeCreate)
            THEN "ClientDataTypeMismatch"
        ELSE IF cd.v.Origin # c.in.rp.Origin THEN "OriginMismatch"
        ELSE IF cd.v.Challenge # c.in.challenge THEN "ChallengeMismatch"
        ELSE IF c.op = "VerifyAssertion"
            THEN IF VerifySignature(c.in.pub, c.in.alg,
                        a \o Sha256(Bytes(c.in.clientDataJSON)), c.in.sig) # nil
                     THEN Kind(VerifySignature(c.in.pub, c.in.alg,
                                   a \o Sha256(Bytes(c.in.clientDataJSON)), c.in.sig))
                 ELSE IF Len(a) < RpidHashSize THEN "MalformedAuthData"
                 ELSE IF ~HasRpIdHash(a, c.in.rp) THEN "RelyingPartyMismatch"
                 ELSE IF Len(a) < RpidHashSize + FlagSize + CounterSize
                     THEN "MalformedAuthData"
                 ELSE "none"
        ELSE IF parseAttestationObject(c.in.attestationObject).err # nil
            THEN "MalformedAttestation"
        ELSE IF c.op = "VerifyAttestation"
            THEN Kind(ParseAuthenticatorData(c.in.rp.ID, AuthDataOf(c)).err)
        ELSE "none"

\* C7: every entry point reports the first check that fails in its fixed order.
C7_FirstFailureReported ==
    last.op \in ClientDataOps => Kind(last.out.err) = FirstFailure(last)

\* Type and origin are both wrong, and the type is what is reported.
C7_Witness ==
    /\ last.op = "VerifyAttestation"
    /\ TypeOf(last) = TypeGet
    /\ Unmarshal(last.in.clientDataJSON).v.Origin # last.in.rp.Origin
    /\ Kind(last.out.err) = "ClientDataTypeMismatch"

\* C8: VerifyAttestationObject succeeds exactly when the client data passes and
\* the attestation object is a map with non-empty authData and nothing after
\* it, and returns the format, statement and authData it was given, whatever
\* authData holds; what VerifyAttestation accepts it accepts, and
\* ParseAuthenticatorData of its authData is VerifyAttestation's result.
C8_AttestationObject ==
    /\ last.op = "VerifyAttestationObject" =>
        /\ Accepted(last) <=>
             /\ ClientDataPasses(last, TypeCreate)
             /\ parseAttestationObject(last.in.attestationObject).err = nil
        /\ \A a \in AttestedAuthData \cup {<<>>} :
             /\ last.in.attestationObject = AttestationObjectBytes(FmtNone, <<160>>, a)
                  => (Accepted(last) <=> ClientDataPasses(last, TypeCreate) /\ a # <<>>)
             /\ (Accepted(last)
                   /\ last.in.attestationObject = AttestationObjectBytes(FmtNone, <<160>>, a))
                  => last.out.val = AttestationObject(Bytes(FmtNone), <<160>>, a)
             /\ last.in.attestationObject
                    = AttestationObjectBytes(FmtNone, <<160>>, a) \o <<0>>
                  => ~Accepted(last)
    /\ (prev.op = "VerifyAttestation" /\ last.op = "VerifyAttestationObject"
           /\ last.in = prev.in /\ Accepted(prev)) =>
        /\ Accepted(last)
        /\ ParseAuthenticatorData(last.in.rp.ID, last.out.val.AuthenticatorData) = prev.out
    /\ (prev.op = "VerifyAttestationObject" /\ last.op = "VerifyAttestation"
           /\ last.in = prev.in /\ Accepted(last)) =>
        /\ Accepted(prev)
        /\ ParseAuthenticatorData(last.in.rp.ID, prev.out.val.AuthenticatorData) = last.out

\* VerifyAttestationObject accepts authData of another relying party, which
\* VerifyAttestation then rejects.
C8_Witness ==
    /\ prev.op = "VerifyAttestationObject" /\ Accepted(prev)
    /\ ~HasRpIdHash(prev.out.val.AuthenticatorData, prev.in.rp)
    /\ last.op = "VerifyAttestation" /\ last.in = prev.in
    /\ Kind(last.out.err) = "RelyingPartyMismatch"

\* C9: for an algorithm outside the seven recognized VerifySignature fails with
\* UnsupportedAlgorithm, whatever the key, data and signature; VerifyAssertion
\* never succeeds for one and fails with UnsupportedAlgorithm once the client
\* data has passed.
C9_UnsupportedAlgorithm ==
    /\ (last.op = "VerifySignature" /\ last.in.alg \notin KnownAlgorithms)
       => Kind(last.out.err) = "UnsupportedAlgorithm"
    /\ (last.op = "VerifyAssertion" /\ last.in.alg \notin KnownAlgorithms) =>
        /\ ~Accepted(last)
        /\ ClientDataPasses(last, TypeGet) => Kind(last.out.err) = "UnsupportedAlgorithm"

\* An ECDSA key's ES256 signature offered under the unrecognized algorithm -6.
C9_Witness ==
    /\ last.op = "VerifySignature"
    /\ last.in.alg = ES256 + 1
    /\ last.in.pub.type = "*ecdsa.PublicKey"
    /\ last.in.sig = Sign(last.in.pub, ES256, last.in.authData)
    /\ Kind(last.out.err) = "UnsupportedAlgorithm"

\* The dynamic type and curve of pub are the ones alg verifies with.
ShapeMatches(pub, alg) ==
    CASE alg = ES256 -> pub.type = "*ecdsa.PublicKey" /\ pub.curve = "P-256"
      [] alg = ES384 -> pub.type = "*ecdsa.PublicKey" /\ pub.curve = "P-384"
      [] alg = ES512 -> pub.type = "*ecdsa.PublicKey" /\ pub.curve = "P-521"
      [] alg = EdDSA -> pub.type \in {"ed25519.PublicKey", "*ed25519.PublicKey"}
      [] alg \in {RS256, RS384, RS512} -> pub.type = "*rsa.PublicKey"
      [] OTHER -> FALSE

\* C10: for a recognized algorithm VerifySignature fails with
\* AlgorithmKeyMismatch exactly when the key is not of the algorithm's shape: a
\* key of another type or an ECDSA key on another curve is a mismatch, and an
\* Ed25519 key held as a value is of the shape of EdDSA.
C10_AlgorithmKeyMismatch ==
    (last.op = "VerifySignature" /\ last.in.alg \in KnownAlgorithms) =>
        (Kind(last.out.err) = "AlgorithmKeyMismatch"
            <=> ~ShapeMatches(last.in.pub, last.in.alg))

\* The flags and the counter of the authenticator data b.
FlagsOf(b) == b[RpidHashSize + 1]
CounterOf(b) ==
    Uint32(SubSeq(b, RpidHashSize + FlagSize + 1, RpidHashSize + FlagSize + CounterSize))

\* C11 as claimed: with a matching RP-ID hash and the AT and ED flags clear,
\* ParseAuthenticatorData accepts exactly 37 bytes, returning the flags and the
\* counter and no credential fields, and rejects anything longer with
\* MalformedAuthData.
C11_AttestedBlockIffAT ==
    (/\ last.op = "ParseAuthenticatorData"
     /\ Len(last.in.authData) >= RpidHashSize + FlagSize + CounterSize
     /\ HasRpIdHash(last.in.authData, last.in.rp)
     /\ ~FlagsAttestedCredentialData(FlagsOf(last.in.authData))
     /\ ~FlagsExtensions(FlagsOf(last.in.authData)))
    => IF Len(last.in.authData) = RpidHashSize + FlagSize + CounterSize
           THEN /\ Accepted(last)
                /\ last.out.val.Flags = FlagsOf(last.in.authData)
                /\ last.out.val.Counter = CounterOf(last.in.authData)
                /\ last.out.val.CredentialID = <<>>
       ELSE Kind(last.out.err) = "MalformedAuthData"

\* The bytes after the attested credential data of the authenticator data b,
\* whose credential ID has the length the two bytes before it give.
AfterAttestedData(b) ==
    LET at == RpidHashSize + FlagSize + CounterSize + AaguidSize + CredIDLengthSize
        key == From(b, at + Uint16(SubSeq(b, at - 1, at)))
    IN  From(key, Skip(key, 1).next - 1)

\* C12 as claimed: ParseAuthenticatorData succeeds with non-empty Extensions
\* exactly when the ED flag is set, and then the bytes after the attested
\* block are one complete CBOR item, returned as they are; bytes after the
\* block with ED clear, ED with no bytes, and bytes that are not one item are
\* rejected.
C12_ExtensionsIffED ==
    (last.op = "ParseAuthenticatorData" /\ Accepted(last)) =>
        /\ last.out.val.Extensions # <<>> <=> FlagsExtensions(last.out.val.Flags)
        /\ last.out.val.Extensions = AfterAttestedData(last.in.authData)
        /\ FlagsExtensions(last.out.val.Flags) =>
             LET item == Skip(last.out.val.Extensions, 1)
             IN  item.ok /\ Done(last.out.val.Extensions, item.next)

\* The text keys of the map b starts with, as far as they can be read.
RECURSIVE KeysFrom(_, _, _)
KeysFrom(b, i, n) ==
    IF n = 0 \/ ~DecodeText(b, i).ok \/ ~Skip(b, DecodeText(b, i).next).ok THEN {}
    ELSE {DecodeText(b, i).val} \cup KeysFrom(b, Skip(b, DecodeText(b, i).next).next, n - 1)

MapKeys(b) ==
    IF ItemHead(b, 1).ok /\ ItemHead(b, 1).major = 5
        THEN KeysFrom(b, ItemHead(b, 1).next, ItemHead(b, 1).arg)
    ELSE {}

\* C13 as claimed: an attestation object is accepted only if it is one map
\* holding fmt, attStmt and a non-empty authData with nothing after it, and a
\* key that is none of the three does not change what is returned.
C13_ThreeKeysRequired ==
    (last.op = "VerifyAttestationObject" /\ Accepted(last)) =>
        /\ {FmtKey, AttStmtKey, AuthDataKey} \subseteq MapKeys(last.in.attestationObject)
        /\ last.out.val.AuthenticatorData # <<>>
        /\ Done(last.in.attestationObject, Skip(last.in.attestationObject, 1).next)
        /\ \A a \in AttestedAuthData :
             last.in.attestationObject = AttestationObjectWithUnknownKey(FmtNone, <<160>>, a)
                => last.out.val = AttestationObject(Bytes(FmtNone), <<160>>, a)

\* C14: an accepted assertion has at least 37 bytes of authData, Flags is the
\* byte authData[32] as it is, and Counter is the unsigned big-endian value of
\* authData[33..36] (kept as its high and low 16 bits); what follows does not
\* matter.
C14_FlagsAndCounter ==
    (last.op = "VerifyAssertion" /\ Accepted(last)) =>
        /\ Len(last.in.authData) >= RpidHashSize + FlagSize + CounterSize
        /\ last.out.val =
             Assertion(last.in.authData[33],
                       [hi |-> last.in.authData[34] * 256 + last.in.authData[35],
                        lo |-> last.in.authData[36] * 256 + last.in.authData[37]])

\* The counter 2^32 - 1 with no flag set, and bytes after the counter.
C14_Witness ==
    /\ last.op = "VerifyAssertion" /\ Accepted(last)
    /\ last.out.val = Assertion(0, [hi |-> 65535, lo |-> 65535])
    /\ Len(last.in.authData) > RpidHashSize + FlagSize + CounterSize

\* Where the credential ID starts, and the length the two bytes before it announce.
CredIDOffset == RpidHashSize + FlagSize + CounterSize + AaguidSize + CredIDLengthSize
CredIDLength(b) == Uint16(SubSeq(b, CredIDOffset - 1, CredIDOffset))

\* C16: authenticator data cut short before any field ParseAuthenticatorData
\* reads (the hash, the flags, the counter, the AAGUID, the length L, the L bytes
\* of the credential ID) gives MalformedAuthData, and on success CredentialID is
\* the L bytes from offset 55; authData cut short in what VerifyAssertion reads
\* after the signature gives MalformedAuthData too.
C16_LengthChecked ==
    /\ last.op = "ParseAuthenticatorData" =>
        /\ Len(last.in.authData) < RpidHashSize
             => Kind(last.out.err) = "MalformedAuthData"
        /\ (HasRpIdHash(last.in.authData, last.in.rp)
               /\ Len(last.in.authData) < CredIDOffset)
             => Kind(last.out.err) = "MalformedAuthData"
        /\ (HasRpIdHash(last.in.authData, last.in.rp)
               /\ Len(last.in.authData) >= CredIDOffset
               /\ Len(last.in.authData) < CredIDOffset + CredIDLength(last.in.authData))
             => Kind(last.out.err) = "MalformedAuthData"
        /\ Accepted(last) =>
             /\ Len(last.in.authData) >= CredIDOffset + CredIDLength(last.in.authData)
             /\ last.out.val.CredentialID =
                  SubSeq(last.in.authData, CredIDOffset + 1,
                         CredIDOffset + CredIDLength(last.in.authData))
    /\ (/\ last.op = "VerifyAssertion"
        /\ ClientDataPasses(last, TypeGet)
        /\ VerifySignature(last.in.pub, last.in.alg,
                           last.in.authData \o Sha256(Bytes(last.in.clientDataJSON)),
                           last.in.sig) = nil) =>
        /\ Len(last.in.authData) < RpidHashSize
             => Kind(last.out.err) = "MalformedAuthData"
        /\ (HasRpIdHash(last.in.authData, last.in.rp)
               /\ Len(last.in.authData) < RpidHashSize + FlagSize + CounterSize)
             => Kind(last.out.err) = "MalformedAuthData"
        /\ Accepted(last)
             => Len(last.in.authData) >= RpidHashSize + FlagSize + CounterSize

\* A credential ID announced as 65535 bytes long in authenticator data that
\* ends before them.
C16_Witness ==
    /\ last.op = "ParseAuthenticatorData"
    /\ HasRpIdHash(last.in.authData, last.in.rp)
    /\ Len(last.in.authData) > CredIDOffset
    /\ CredIDLength(last.in.authData) = 65535
    /\ last.out.err = Errorf("not enough bytes for cred ID")

\* The ceremony type an entry point expects.
ExpectedType(op) == IF op = "VerifyAssertion" THEN TypeGet ELSE TypeCreate

\* C17: once the document decodes with the right type and origin, the challenge
\* check fails exactly when the decoded challenge and the challenge argument
\* differ in length or in a byte; a document without the member challenge, or
\* with the empty string for it, decodes to the empty challenge and is rejected
\* with ChallengeMismatch exactly when the challenge argument is not empty.
C17_ChallengeCheck ==
    last.op \in ClientDataOps =>
        /\ (/\ ~Unmarshal(last.in.clientDataJSON).err
            /\ Unmarshal(last.in.clientDataJSON).v.Type = ExpectedType(last.op)
            /\ Unmarshal(last.in.clientDataJSON).v.Origin = last.in.rp.Origin) =>
             (Kind(last.out.err) = "ChallengeMismatch" <=>
                 \/ Len(Unmarshal(last.in.clientDataJSON).v.Challenge)
                       # Len(last.in.challenge)
                 \/ \E i \in 1..Len(last.in.challenge) :
                       Unmarshal(last.in.clientDataJSON).v.Challenge[i]
                         # last.in.challenge[i])
        /\ (/\ last.in.clientDataJSON \in ChallengelessDocuments(ExpectedType(last.op))
            /\ last.in.rp.Origin = OriginA) =>
             /\ Kind(last.out.err) = "ChallengeMismatch" <=> Len(last.in.challenge) > 0
             /\ Len(last.in.challenge) = 0 =>
                  Kind(last.out.err) \notin {"MalformedClientData", "ClientDataTypeMismatch",
                                             "OriginMismatch", "ChallengeMismatch"}

\* A document without the member challenge passes with the empty challenge.
C17_Witness ==
    /\ last.op = "VerifyAssertion" /\ Accepted(last)
    /\ last.in.clientDataJSON = NoChallengeJSON(TypeGet)
    /\ last.in.challenge = <<>>


\* What the claim says the dictionary d encodes as, from the Add calls made
\* on it: the entries calls[i..] one after the other.
RECURSIVE EntriesInCallOrder(_, _)
EntriesInCallOrder(calls, i) ==
    IF i > Len(calls) THEN <<>>
    ELSE <<"<", "k", "e", "y", ">">> \o EscapeText(calls[i].key) \o <<"<", "/", "k", "e", "y", ">">>
         \o encodePlist(entries, calls[i].value)
         \o EntriesInCallOrder(calls, i + 1)

\* The encodings TestMarshal expects.
TestArrayEncoding ==
    <<"<", "a", "r", "r", "a", "y", ">", "<", "s", "t", "r", "i", "n", "g", ">", "h", "e", "l", "l", "o", "<", "/", "s", "t", "r", "i", "n", "g", ">", "<", "t", "r", "u", "e", "/", ">", "<", "i", "n", "t", "e", "g", "e", "r", ">", "1", "<", "/", "i", "n", "t", "e", "g", "e", "r", ">", "<", "i", "n", "t", "e", "g", "e", "r", ">", "-", "2", "3", "4", "4", "<", "/", "i", "n", "t", "e", "g", "e", "r", ">", "<", "/", "a", "r", "r", "a", "y", ">">>

TestDictEncoding ==
    <<"<", "d", "i", "c", "t", ">", "<", "k", "e", "y", ">", "&", "l", "t", ";", "a", "&", "g", "t", ";", "<", "/", "k", "e", "y", ">", "<", "s", "t", "r", "i", "n", "g", ">", "h", "e", "l", "l", "o", "<", "/", "s", "t", "r", "i", "n", "g", ">", "<", "/", "d", "i", "c", "t", ">">>

\* C15: a dictionary encodes as "<dict>", then for each Add call made on it,
\* in call order, "<key>" + the escaped key + "</key>" and the encoding of
\* the call's value, then "</dict>"; it has one entry for each call, also
\* when a key repeats; Add returns the dictionary it was called on; and an
\* array encodes its elements in argument order between "<array>" and
\* "</array>".
C15_DictionaryEncoding ==
    /\ \A d \in 1..Len(entries) :
          /\ Len(entries[d]) = Len(added[d])
          /\ encodePlist(entries, Dictionary(d)) =
                <<"<", "d", "i", "c", "t", ">">> \o EntriesInCallOrder(added[d], 1) \o <<"<", "/", "d", "i", "c", "t", ">">>
          /\ entries[d] = <<dictEntry(<<"<", "a", ">">>, plistString(<<"h", "e", "l", "l", "o">>))>> =>
                encodePlist(entries, Dictionary(d)) = TestDictEncoding
    /\ returned.ret = returned.recv
    /\ encodePlist(entries, TestArray) = TestArrayEncoding

\* A dictionary on which Add was called twice with the same key and with
\* different values, one of them an array.
C15_Witness ==
    /\ returned # NoAdd
    /\ \E d \in 1..Len(entries) :
          /\ Len(added[d]) = 2
          /\ added[d][1].key = added[d][2].key
          /\ added[d][1].value = TestArray
          /\ added[d][2].value = plistString(<<"h", "e", "l", "l", "o">>)
          /\ encodePlist(entries, Dictionary(d)) =
                <<"<", "d", "i", "c", "t", ">", "<", "k", "e", "y", ">", "a", "<", "/", "k", "e", "y", ">">> \o TestArrayEncoding
                \o <<"<", "k", "e", "y", ">", "a", "<", "/", "k", "e", "y", ">", "<", "s", "t", "r", "i", "n", "g", ">", "h", "e", "l", "l", "o", "<", "/", "s", "t", "r", "i", "n", "g", ">", "<", "/", "d", "i", "c", "t", ">">>
====
